---- MODULE Spec2Model ----
(***************************************************************************)
(* Model of the itinerary planning core of tripsnap (src/chatbot-model).   *)
(*                                                                         *)
(* Part 1: availability engine (time_module.py: is_open_at,                *)
(*         is_available_in_period).                                        *)
(* Part 2: wait-time estimator (bakery_rag_chatbot.py:                     *)
(*         BakeryExpertRAG._get_expected_wait_minutes).                    *)
(* Part 3: ranking engines (ranking_module.py: rank_bakeries;              *)
(*         ranking_utils.py: rank_bakeries).                               *)
(* Part 4: fixed-line planner (subway_tour_planner.py:                     *)
(*         build_subway_contiguous_tour) and the distance sequencer        *)
(*         (bakery_rag_chatbot.py: _order_bakeries_by_route_distance).     *)
(*                                                                         *)
(* Conventions.                                                            *)
(*  - Optional[T] is a sequence of length <= 1: None is <<>>, a present    *)
(*    value x is <<x>>.                                                    *)
(*  - datetime.time is the minute of the day (0..1439); business hours and *)
(*    parsed constraint times carry no seconds.                            *)
(*  - datetime.date is the day of the year 2025 (1..365).                  *)
(*  - A wait is kept exactly, in thousandths of a minute: the code's float *)
(*    factors 1.1, 1.2, 1.3 are 11, 12, 13 tenths.                         *)
(***************************************************************************)
EXTENDS Integers, Sequences, FiniteSets, TLC

VARIABLES
    business_hours_index,  \* name -> weekday -> {open, close, last_order}
    avail_request,         \* the pending call: [op, bakery, dt, constraint]
    avail_response,        \* None until the call returns, then <<value>>
    review_stats_cache,    \* name -> total review count
    wait_request,          \* [bakery, constraint] handed to the estimator
    now,                   \* the wall clock read by datetime.now(), minutes of 2025
    wait_calls,            \* the estimator's calls so far: <<[clock, wait]>>
    module_request,        \* arguments of ranking_module.rank_bakeries
    module_response,       \* None until it returns, then <<[scoring, scored]>>
    utils_request,         \* arguments of ranking_utils.rank_bakeries
    utils_response,        \* None until it returns, then <<[...]>>
    subway_request,        \* arguments of build_subway_contiguous_tour
    subway_response,       \* None until it returns, then <<result>>
    route_request,         \* arguments of _order_bakeries_by_route_distance
    route_response,        \* None until it returns, then <<route>>
    core_request,          \* [op, ...]: one call of the orchestration layer
    core_response,         \* None until it returns, then <<value>>
    dataset,               \* the loaded POI records, shared by reference
    filter_result,         \* the records last returned by a station filter
    _instance,             \* RAGWrapper._instance: None or <<instance>>
    constructor_runs,      \* the instances BakeryRAGSystem() has built
    pc,                    \* thread -> its position in rag_wrapper.py
    observed               \* thread -> None or <<the instance it was handed>>

vars == <<business_hours_index, avail_request, avail_response,
          review_stats_cache, wait_request, now, wait_calls,
          module_request, module_response, utils_request, utils_response,
          subway_request, subway_response, route_request, route_response,
          core_request, core_response, dataset, filter_result,
          _instance, constructor_runs, pc, observed>>

availVars == <<business_hours_index, avail_request, avail_response>>
waitVars == <<review_stats_cache, wait_request, now, wait_calls>>
rankVars == <<module_request, module_response, utils_request, utils_response>>
tourVars == <<subway_request, subway_response, route_request, route_response>>
hostVars == <<core_request, core_response, dataset, filter_result,
              _instance, constructor_runs, pc, observed>>

----------------------------------------------------------------------------
(* Optional values and Python truthiness                                   *)

None == <<>>
Some(x) == <<x>>
Get(o) == o[1]

\* Python's `a or b` on Optional[time]: a time object is always truthy
\* (Python >= 3.5), so only None falls through to b.
OrElse(a, b) == IF a # None THEN a ELSE b

\* bakery.get("name") or bakery.get("slug_en") or ""
BakeryName(bakery) ==
    IF bakery.name # "" THEN bakery.name
    ELSE IF bakery.slug_en # "" THEN bakery.slug_en
    ELSE ""

----------------------------------------------------------------------------
(* Calendar: datetime.date restricted to the year 2025                     *)

DaysInMonth == <<31, 28, 31, 30, 31, 30, 31, 31, 30, 31, 30, 31>>

RECURSIVE DaysBefore(_)
DaysBefore(m) == IF m = 1 THEN 0 ELSE DaysBefore(m - 1) + DaysInMonth[m - 1]

DayOfYear(m, d) == DaysBefore(m) + d

MonthOf(date) == CHOOSE m \in 1..12 :
                    DaysBefore(m) < date /\ date <= DaysBefore(m) + DaysInMonth[m]

DayOfMonth(date) == date - DaysBefore(MonthOf(date))

\* date.weekday(): Monday is 0; 2025-01-01 is a Wednesday (2).
Weekday(date) == (date + 1) % 7

----------------------------------------------------------------------------
(* Bounds of the availability model                                        *)

\* Length of the window of calendar dates a request may name.
NumDates == 3

\* The window starts on Friday 2025-02-28; Saturday 2025-03-01 is a holiday.
FirstDate == DayOfYear(2, 28)
Dates == FirstDate .. (FirstDate + NumDates - 1)

\* 09:00, 10:30, 17:30
TimesOfDay == {540, 630, 1050}
OptTimes == {None} \cup {Some(t) : t \in TimesOfDay}

\* The weekdays the dataset carries hours for (Saturday, Sunday).
HoursDays == {5, 6}

\* What build_business_hours_index stores for one weekday: open and close are
\* always present, last_order is optional.
DayInfos == [open : {Some(t) : t \in TimesOfDay},
             close : {Some(t) : t \in TimesOfDay},
             last_order : OptTimes]

\* dict.get(wd): a weekday without hours is absent from the weekly dict.
WeeklySet == { w \in [HoursDays -> {None} \cup {Some(d) : d \in DayInfos}] :
                 \E wd \in HoursDays : w[wd] # None }

WeeklyGet(weekly, wd) == IF wd \in DOMAIN weekly THEN weekly[wd] ELSE None

\* DateTimeConstraint as parse_date_time_from_query and answer_query build it:
\* an explicit range carries both dates (the first and the last date of the
\* query, which need not be ordered) and clears the use-now flag; without a
\* range the flag may be set only when no time of day was given.
Constraints ==
    { c \in [has_date_range : BOOLEAN,
             start_date : {None} \cup {Some(d) : d \in Dates},
             end_date : {None} \cup {Some(d) : d \in Dates},
             start_time : OptTimes,
             end_time : OptTimes,
             use_now_if_missing : BOOLEAN] :
        /\ c.has_date_range => (c.start_date # None /\ c.end_date # None)
        /\ ~c.has_date_range => (c.start_date = None /\ c.end_date = None)
        /\ c.use_now_if_missing =>
             (~c.has_date_range /\ c.start_time = None /\ c.end_time = None) }

----------------------------------------------------------------------------
(* time_module.py                                                          *)

\* effective_close = last_t or close_t
EffectiveClose(day_info) == OrElse(day_info.last_order, day_info.close)

\* open_t <= current <= effective_close
WithinHoursExclusive(open_t, current, effective_close) ==
    Get(open_t) <= current /\ current < Get(effective_close)

WithinHours(open_t, current, effective_close) ==
    Get(open_t) <= current /\ current <= Get(effective_close)

\* if not name or name not in business_hours_index
UnknownName(name, index) == name = "" \/ name \notin DOMAIN index

is_open_at_unknown_is_open(bakery, dt, index) ==
    LET name == BakeryName(bakery) IN
    IF UnknownName(name, index) THEN TRUE
    ELSE LET day_info == WeeklyGet(index[name], Weekday(dt.date)) IN
         IF day_info = None THEN FALSE
         ELSE LET info == Get(day_info) IN
              IF info.open = None \/ info.close = None THEN FALSE
              ELSE WithinHours(info.open, dt.time, EffectiveClose(info))

is_open_at(bakery, dt, index) ==
    LET name == BakeryName(bakery) IN
    IF UnknownName(name, index) THEN FALSE
    ELSE LET day_info == WeeklyGet(index[name], Weekday(dt.date)) IN
         IF day_info = None THEN FALSE
         ELSE LET info == Get(day_info) IN
              IF info.open = None \/ info.close = None THEN FALSE
              ELSE WithinHours(info.open, dt.time, EffectiveClose(info))

\* The time-of-day test of the weekday scan (no date range). At least one of
\* start_time / end_time is present here.
WeekdayOverlapsEither(open_t, effective_close, constraint) ==
    IF constraint.start_time # None /\ constraint.end_time # None
    THEN \/ Get(open_t) <= Get(constraint.end_time)
         \/ Get(effective_close) >= Get(constraint.start_time)
    ELSE IF constraint.start_time # None
    THEN Get(effective_close) >= Get(constraint.start_time)
    ELSE IF constraint.end_time # None
    THEN Get(open_t) <= Get(constraint.end_time)
    ELSE FALSE

WeekdayOverlaps(open_t, effective_close, constraint) ==
    IF constraint.start_time # None /\ constraint.end_time # None
    THEN /\ Get(open_t) <= Get(constraint.end_time)
         /\ Get(effective_close) >= Get(constraint.start_time)
    ELSE IF constraint.start_time # None
    THEN Get(effective_close) >= Get(constraint.start_time)
    ELSE IF constraint.end_time # None
    THEN Get(open_t) <= Get(constraint.end_time)
    ELSE FALSE

\* for wd in range(7): ... return True, effective_close / return False, None
RECURSIVE ScanWeekdays(_, _, _)
ScanWeekdays(weekly, constraint, wd) ==
    IF wd > 6 THEN <<FALSE, None>>
    ELSE LET day_info == WeeklyGet(weekly, wd) IN
         IF day_info = None THEN ScanWeekdays(weekly, constraint, wd + 1)
         ELSE LET info == Get(day_info) IN
              IF info.open = None \/ info.close = None
              THEN ScanWeekdays(weekly, constraint, wd + 1)
              ELSE IF WeekdayOverlaps(info.open, EffectiveClose(info), constraint)
              THEN <<TRUE, EffectiveClose(info)>>
              ELSE ScanWeekdays(weekly, constraint, wd + 1)

\* The time-of-day test of the date scan; with neither time given every date
\* that has hours passes.
DateOverlaps(open_t, effective_close, constraint) ==
    IF constraint.start_time # None /\ constraint.end_time # None
    THEN /\ Get(open_t) <= Get(constraint.end_time)
         /\ Get(effective_close) >= Get(constraint.start_time)
    ELSE IF constraint.start_time # None
    THEN Get(effective_close) >= Get(constraint.start_time)
    ELSE IF constraint.end_time # None
    THEN Get(open_t) <= Get(constraint.end_time)
    ELSE TRUE

\* if current_date == constraint.end_date: last_day_close = effective_close
LastDayCloseAlways(current_date, end_date, effective_close) == effective_close

LastDayClose(current_date, end_date, effective_close) ==
    IF current_date = end_date THEN effective_close ELSE None

\* while current_date and constraint.end_date and current_date <= end_date
RECURSIVE ScanDates(_, _, _)
ScanDates(weekly, constraint, current_date) ==
    IF current_date = None \/ constraint.end_date = None
       \/ Get(current_date) > Get(constraint.end_date)
    THEN <<FALSE, None>>
    ELSE LET day_info == WeeklyGet(weekly, Weekday(Get(current_date)))
             next_date == Some(Get(current_date) + 1)
         IN  IF day_info = None THEN ScanDates(weekly, constraint, next_date)
             ELSE LET info == Get(day_info) IN
                  IF info.open # None /\ info.close # None
                     /\ DateOverlaps(info.open, EffectiveClose(info), constraint)
                  THEN <<TRUE, LastDayClose(current_date, constraint.end_date,
                                            EffectiveClose(info))>>
                  ELSE ScanDates(weekly, constraint, next_date)

\* return True, None when neither a range nor a time of day is given
NoFilterShortcutMissing(constraint) == FALSE

NoFilterShortcut(constraint) ==
    constraint.start_time = None /\ constraint.end_time = None

is_available_in_period(bakery, constraint, index) ==
    LET name == BakeryName(bakery) IN
    IF UnknownName(name, index) THEN <<FALSE, None>>
    ELSE IF ~constraint.has_date_range
    THEN IF NoFilterShortcut(constraint) THEN <<TRUE, None>>
         ELSE ScanWeekdays(index[name], constraint, 0)
    ELSE ScanDates(index[name], constraint, constraint.start_date)


----------------------------------------------------------------------------
(* Bounds of the wait-time model                                           *)

\* Friday 2025-02-28 (plain), Saturday 2025-03-01 (weekend and holiday),
\* Sunday 2025-03-02 (weekend), Thursday 2025-12-25 (holiday).
WaitDates == {DayOfYear(2, 28), DayOfYear(3, 1), DayOfYear(3, 2), DayOfYear(12, 25)}

\* The instants datetime.now() is read at.
ClockReadings == {[date |-> DayOfYear(2, 28), time |-> 1050],
                  [date |-> DayOfYear(3, 1), time |-> 540],
                  [date |-> DayOfYear(3, 1), time |-> 630],
                  [date |-> DayOfYear(12, 25), time |-> 630]}

Later(a, b) == a.date > b.date \/ (a.date = b.date /\ a.time > b.time)

\* How often one request's estimate is computed.
MaxCalls == 2

\* A JSON value of the dataset: a number, or text that float() rejects.
Num(n) == [numeric |-> TRUE, value |-> n]
Text == [numeric |-> FALSE, value |-> 0]
WaitValues == {None, Some(Text), Some(Num(0 - 5)), Some(Num(20))}

\* predictions[weekday]: by_time[band]["predicted_wait_minutes"] (None when the
\* band or the key is missing) and the weekday-level predicted_wait_minutes.
DayPreds == [lunch : WaitValues,
             dinner : {None, Some(Num(20))},
             predicted_wait_minutes : WaitValues]

KOREAN_WEEKDAY_MAP == [wd \in 0..6 |->
    <<"wolyoil", "hwayoil", "suyoil", "mogyoil", "geumyoil", "toyoil", "iryoil">>[wd + 1]]

\* waiting_prediction: predictions is keyed by weekday name (here: none, or
\* Saturday only); overall_stats.average_minutes is optional.
WaitingPredictions ==
    [predictions : {<<>>} \cup {[k \in {"toyoil"} |-> p] : p \in DayPreds},
     average_minutes : WaitValues]

\* Single-date requests with at most one time of day, or no range at all.
WaitConstraints ==
    { c \in [has_date_range : BOOLEAN,
             start_date : {None} \cup {Some(d) : d \in WaitDates},
             end_date : {None} \cup {Some(d) : d \in WaitDates},
             start_time : OptTimes,
             end_time : OptTimes,
             use_now_if_missing : BOOLEAN] :
        /\ c.has_date_range => (c.start_date # None /\ c.end_date = c.start_date)
        /\ ~c.has_date_range => (c.start_date = None /\ c.end_date = None)
        /\ c.start_time = None \/ c.end_time = None
        /\ c.use_now_if_missing =>
             (~c.has_date_range /\ c.start_time = None /\ c.end_time = None) }

\* review_stats_cache: name -> (total, keyword counts); absent names count 0.
ReviewTotals == {500, 1000, 2000}
ReviewCaches == {<<>>} \cup {[n \in {"A"} |-> <<t, <<>>>>] : t \in ReviewTotals}

----------------------------------------------------------------------------
(* bakery_rag_chatbot.py: wait-time estimator                              *)

\* float(x) inside try/except: a value float() rejects leaves 0.0
ToFloat(v) == IF v.numeric THEN v.value ELSE 0

is_public_holiday(date) ==
    <<MonthOf(date), DayOfMonth(date)>> \in
        {<<1, 1>>, <<3, 1>>, <<5, 5>>, <<6, 6>>, <<8, 15>>, <<10, 3>>, <<10, 9>>,
         <<12, 25>>}

\* ref_date / ref_time: the range's start, else the clock when use-now is set
RefDateTimeAlwaysNow(constraint, clock) ==
    [date |-> Some(clock.date), time |-> Some(clock.time)]

RefDateTimeClockTime(constraint, clock) ==
    IF constraint.has_date_range /\ constraint.start_date # None
    THEN [date |-> constraint.start_date,
          time |-> OrElse(OrElse(constraint.start_time, constraint.end_time),
                          Some(clock.time))]
    ELSE IF constraint.use_now_if_missing
    THEN [date |-> Some(clock.date), time |-> Some(clock.time)]
    ELSE [date |-> None, time |-> None]

RefDateTime(constraint, clock) ==
    IF constraint.has_date_range /\ constraint.start_date # None
    THEN [date |-> constraint.start_date,
          time |-> OrElse(constraint.start_time, constraint.end_time)]
    ELSE IF constraint.use_now_if_missing
    THEN [date |-> Some(clock.date), time |-> Some(clock.time)]
    ELSE [date |-> None, time |-> None]

TimeBand(ref_time) ==
    IF ref_time = None THEN None
    ELSE LET h == Get(ref_time) \div 60 IN
         IF 10 <= h /\ h < 15 THEN Some("lunch")
         ELSE IF 17 <= h /\ h < 21 THEN Some("dinner")
         ELSE None

BandValue(day_pred, band) ==
    IF band = "lunch" THEN day_pred.lunch ELSE day_pred.dinner

\* base_wait: weekday+band, then weekday, then overall average
BaseWait(wp, ref) ==
    LET weekday_name == IF ref.date = None THEN None
                        ELSE Some(KOREAN_WEEKDAY_MAP[Weekday(Get(ref.date))])
        time_band == TimeBand(ref.time)
        from_day ==
            IF weekday_name # None /\ Get(weekday_name) \in DOMAIN wp.predictions
            THEN LET day_pred == wp.predictions[Get(weekday_name)]
                     from_band ==
                         IF time_band # None
                            /\ BandValue(day_pred, Get(time_band)) # None
                         THEN ToFloat(Get(BandValue(day_pred, Get(time_band))))
                         ELSE 0
                 IN  IF from_band <= 0 /\ day_pred.predicted_wait_minutes # None
                     THEN ToFloat(Get(day_pred.predicted_wait_minutes))
                     ELSE from_band
            ELSE 0
    IN  IF from_day <= 0 /\ wp.average_minutes # None
        THEN ToFloat(Get(wp.average_minutes))
        ELSE from_day

\* if weekday_idx >= 5: factor *= 1.2 ; if holiday: factor *= 1.3  (tenths)
DateFactor(ref_date) ==
    IF ref_date = None THEN 100
    ELSE (IF Weekday(Get(ref_date)) >= 5 THEN 12 ELSE 10)
         * (IF is_public_holiday(Get(ref_date)) THEN 13 ELSE 10)

TotalReviews(name, cache) == IF name \in DOMAIN cache THEN cache[name][1] ELSE 0

\* if >= 2000: *1.3 elif >= 1000: *1.2 elif >= 500: *1.1  (tenths)
ReviewFactorCumulative(total_reviews) ==
    ((IF total_reviews >= 2000 THEN 13 ELSE 10)
     * (IF total_reviews >= 1000 THEN 12 ELSE 10)
     * (IF total_reviews >= 500 THEN 11 ELSE 10)) \div 100

ReviewFactor(total_reviews) ==
    IF total_reviews >= 2000 THEN 13
    ELSE IF total_reviews >= 1000 THEN 12
    ELSE IF total_reviews >= 500 THEN 11
    ELSE 10

\* if base_wait <= 0: return 0.0 ; return base_wait * factor  (thousandths)
WeightedNoGuard(base_wait, date_factor, review_factor) ==
    base_wait * date_factor * review_factor

Weighted(base_wait, date_factor, review_factor) ==
    IF base_wait <= 0 THEN 0 ELSE base_wait * date_factor * review_factor

get_expected_wait_minutes(bakery, constraint, cache, clock) ==
    LET ref == RefDateTime(constraint, clock)
        base_wait == BaseWait(bakery.waiting_prediction, ref)
    IN  Weighted(base_wait, DateFactor(ref.date),
                 ReviewFactor(TotalReviews(BakeryName(bakery), cache)))


----------------------------------------------------------------------------
(* State machine                                                           *)

\* POIs handed to the availability engine: named, known by slug only,
\* named but without hours, and nameless.
AvailBakeries == {[name |-> "A", slug_en |-> "a"],
                  [name |-> "", slug_en |-> "A"],
                  [name |-> "B", slug_en |-> "A"],
                  [name |-> "", slug_en |-> ""]}

Instants == [date : Dates, time : TimesOfDay]

NoInstant == [date |-> FirstDate, time |-> 0]
NoConstraint == [has_date_range |-> FALSE, start_date |-> None, end_date |-> None,
                 start_time |-> None, end_time |-> None,
                 use_now_if_missing |-> FALSE]

AvailRequests ==
    {[op |-> "is_open_at", bakery |-> b, dt |-> i, constraint |-> NoConstraint] :
        b \in AvailBakeries, i \in Instants}
    \cup
    {[op |-> "is_available_in_period", bakery |-> b, dt |-> NoInstant,
      constraint |-> c] : b \in AvailBakeries, c \in Constraints}

WaitBakeries == {[name |-> "A", slug_en |-> "a", waiting_prediction |-> wp] :
                    wp \in WaitingPredictions}

IdleWait ==
    /\ review_stats_cache = <<>>
    /\ wait_request = <<>>
    /\ now = [date |-> FirstDate, time |-> 0]
    /\ wait_calls = <<>>

IdleAvail ==
    /\ business_hours_index = <<>>
    /\ avail_request = <<>>
    /\ avail_response = None

\* The ranking engines, the fixed-line planner and the sequencer other than
\* `self` are not called.
IdleExcept(self) ==
    /\ self = "ranking_module"
       \/ (module_request = <<>> /\ module_response = None)
    /\ self = "ranking_utils"
       \/ (utils_request = <<>> /\ utils_response = None)
    /\ self = "subway"
       \/ (subway_request = <<>> /\ subway_response = None)
    /\ self = "route"
       \/ (route_request = <<>> /\ route_response = None)
    /\ self = "core"
       \/ (core_request = <<>> /\ core_response = None)
    /\ self = "dataset"
       \/ (dataset = <<>> /\ filter_result = None)
    /\ self = "rag_wrapper"
       \/ (/\ _instance = None /\ constructor_runs = {}
           /\ pc = <<>> /\ observed = <<>>)

\* The index is built once at start-up; a request arrives.
InitAvail ==
    /\ business_hours_index \in {[n \in {"A"} |-> w] : w \in WeeklySet}
    /\ avail_request \in AvailRequests
    /\ avail_response = None
    /\ IdleWait
    /\ IdleExcept("none")

IsOpenAt ==
    /\ avail_response = None
    /\ avail_request.op = "is_open_at"
    /\ avail_response' = Some(is_open_at(avail_request.bakery, avail_request.dt,
                                         business_hours_index))
    /\ UNCHANGED <<business_hours_index, avail_request, waitVars, rankVars,
                   tourVars,
                   hostVars>>

IsAvailableInPeriod ==
    /\ avail_response = None
    /\ avail_request.op = "is_available_in_period"
    /\ avail_response' = Some(is_available_in_period(avail_request.bakery,
                                                     avail_request.constraint,
                                                     business_hours_index))
    /\ UNCHANGED <<business_hours_index, avail_request, waitVars, rankVars,
                   tourVars,
                   hostVars>>

SpecAvail == InitAvail /\ [][IsOpenAt \/ IsAvailableInPeriod]_vars

InitWait ==
    /\ review_stats_cache \in ReviewCaches
    /\ wait_request \in [bakery : WaitBakeries, constraint : WaitConstraints]
    /\ now \in ClockReadings
    /\ wait_calls = <<>>
    /\ IdleAvail
    /\ IdleExcept("none")

\* One call of _get_expected_wait_minutes; `clock` is the instant of the call.
GetExpectedWaitMinutes ==
    /\ Len(wait_calls) < MaxCalls
    /\ wait_calls' = Append(wait_calls,
          [clock |-> now,
           wait |-> get_expected_wait_minutes(wait_request.bakery,
                                              wait_request.constraint,
                                              review_stats_cache, now)])
    /\ UNCHANGED <<review_stats_cache, wait_request, now, availVars, rankVars,
                   tourVars,
                   hostVars>>

\* Time passes between two calls.
Tick ==
    /\ \E t \in ClockReadings : Later(t, now) /\ now' = t
    /\ UNCHANGED <<review_stats_cache, wait_request, wait_calls, availVars,
                   rankVars, tourVars,
                   hostVars>>

SpecWait == InitWait /\ [][GetExpectedWaitMinutes \/ Tick]_vars

----------------------------------------------------------------------------
(* Claims about the availability engine (checked under SpecAvail)          *)

AvailReturned(op) == avail_request # <<>> /\ avail_request.op = op
                     /\ avail_response # None

\* The POI's name (or, failing that, its slug) is a key of the hours index.
HasHoursEntry ==
    \/ avail_request.bakery.name \in DOMAIN business_hours_index
    \/ /\ avail_request.bakery.name = ""
       /\ avail_request.bakery.slug_en \in DOMAIN business_hours_index

\* The hours of the requested POI on weekday wd, as a set (empty: none).
HoursOn(wd) ==
    IF ~HasHoursEntry THEN {}
    ELSE LET key == IF avail_request.bakery.name = ""
                    THEN avail_request.bakery.slug_en
                    ELSE avail_request.bakery.name
             weekly == business_hours_index[key]
         IN  IF wd \in DOMAIN weekly /\ weekly[wd] # None
             THEN {[open |-> weekly[wd][1].open[1],
                    effectiveClose |-> IF weekly[wd][1].last_order # None
                                       THEN weekly[wd][1].last_order[1]
                                       ELSE weekly[wd][1].close[1]]}
             ELSE {}

TimeConstrained(c) ==
    c.has_date_range \/ c.start_time # None \/ c.end_time # None

\* C1: a POI with no weekly-hours entry is never reported open by is_open_at
\* and never reported available by is_available_in_period under a constraint
\* that carries a date range, a start time or an end time.
C1_NoHoursNeverOpen ==
    ~HasHoursEntry =>
        /\ AvailReturned("is_open_at") => avail_response[1] = FALSE
        /\ (AvailReturned("is_available_in_period")
            /\ TimeConstrained(avail_request.constraint))
           => avail_response[1][1] = FALSE

\* A POI named "B" (no hours) was asked about at an instant at which the
\* indexed POI "A" is open, and was reported closed.
C1_Witness ==
    /\ AvailReturned("is_open_at")
    /\ avail_request.bakery.name = "B"
    /\ avail_response[1] = FALSE
    /\ \E wd \in DOMAIN business_hours_index["A"] :
          /\ wd = Weekday(avail_request.dt.date)
          /\ business_hours_index["A"][wd] # None
          /\ business_hours_index["A"][wd][1].open[1] <= avail_request.dt.time
          /\ business_hours_index["A"][wd][1].last_order = None
          /\ avail_request.dt.time <= business_hours_index["A"][wd][1].close[1]

\* C2: is_open_at is true iff the POI has hours for the instant's weekday and
\* open <= time of day <= effective close, both bounds inclusive.
C2_OpenIffWithinHours ==
    AvailReturned("is_open_at") =>
        (avail_response[1] = TRUE
         <=> \E h \in HoursOn(Weekday(avail_request.dt.date)) :
                /\ h.open <= avail_request.dt.time
                /\ avail_request.dt.time <= h.effectiveClose)

\* Open exactly at the last-order time, which is earlier than the close time.
C2_Witness ==
    /\ AvailReturned("is_open_at")
    /\ avail_response[1] = TRUE
    /\ \E h \in HoursOn(Weekday(avail_request.dt.date)) :
          /\ h.effectiveClose = avail_request.dt.time
          /\ h.open < h.effectiveClose
    /\ LET weekly == business_hours_index["A"]
           wd == Weekday(avail_request.dt.date)
       IN  /\ weekly[wd][1].last_order # None
           /\ weekly[wd][1].last_order[1] < weekly[wd][1].close[1]

\* The time-of-day overlap test of the spec, on plain values.
Overlap(h, c) ==
    /\ c.end_time # None => h.open <= c.end_time[1]
    /\ c.start_time # None => h.effectiveClose >= c.start_time[1]

\* C3: without a date range and with a start or an end time, the POI is
\* available iff some weekday 0..6 with hours overlaps the requested interval
\* (one-sided when only one of the two times is given).
C3_AnyWeekdayOverlaps ==
    (AvailReturned("is_available_in_period")
     /\ ~avail_request.constraint.has_date_range
     /\ (avail_request.constraint.start_time # None
         \/ avail_request.constraint.end_time # None))
    => (avail_response[1][1] = TRUE
        <=> \E wd \in 0..6 : \E h \in HoursOn(wd) :
               Overlap(h, avail_request.constraint))

\* Both times given; Saturday's hours miss the interval, Sunday's meet it.
C3_Witness ==
    /\ AvailReturned("is_available_in_period")
    /\ ~avail_request.constraint.has_date_range
    /\ avail_request.constraint.start_time # None
    /\ avail_request.constraint.end_time # None
    /\ avail_response[1][1] = TRUE
    /\ \E h \in HoursOn(5) : ~Overlap(h, avail_request.constraint)
    /\ \E h \in HoursOn(6) : Overlap(h, avail_request.constraint)

\* C4: without a date range the second component of the result (the last-day
\* close) is absent, also when the POI is reported available.
C4_NoLastDayCloseWithoutRange ==
    (AvailReturned("is_available_in_period")
     /\ ~avail_request.constraint.has_date_range)
    => avail_response[1][2] = None

\* The dates of the range on which the POI has hours that pass the test.
FeasibleDates ==
    LET c == avail_request.constraint IN
    IF c.start_date = None \/ c.end_date = None THEN {}
    ELSE { d \in c.start_date[1] .. c.end_date[1] :
             \E h \in HoursOn(Weekday(d)) : Overlap(h, c) }

FirstFeasibleDate == CHOOSE d \in FeasibleDates : \A e \in FeasibleDates : d <= e

\* C5: with a date range the POI is available iff some date of start..end has
\* hours that pass the overlap test; the last-day close is present exactly when
\* the first such date is the end date, and is then that day's effective close.
C5_FirstFeasibleDate ==
    (AvailReturned("is_available_in_period")
     /\ avail_request.constraint.has_date_range)
    => /\ avail_response[1][1] = (FeasibleDates # {})
       /\ avail_response[1][2] =
            IF FeasibleDates # {}
               /\ FirstFeasibleDate = avail_request.constraint.end_date[1]
            THEN LET h == CHOOSE h \in HoursOn(Weekday(FirstFeasibleDate)) : TRUE
                 IN  <<h.effectiveClose>>
            ELSE None

\* A range of several dates whose only feasible date is the end date, after an
\* earlier date that has hours but fails the test.
C5_Witness ==
    /\ AvailReturned("is_available_in_period")
    /\ avail_request.constraint.has_date_range
    /\ avail_request.constraint.start_date[1] < avail_request.constraint.end_date[1]
    /\ avail_response[1][1] = TRUE
    /\ avail_response[1][2] # None
    /\ \E d \in avail_request.constraint.start_date[1] ..
                avail_request.constraint.end_date[1] - 1 :
          HoursOn(Weekday(d)) # {}

\* C6 as stated: without a date range and without a start or end time every
\* POI is reported available, whatever hours data it carries.
C6_EveryPoiAvailable ==
    (AvailReturned("is_available_in_period")
     /\ ~TimeConstrained(avail_request.constraint))
    => avail_response[1][1] = TRUE

\* C6 amended: without a date range and without a start or end time, a POI is
\* reported available exactly when it has an entry in the hours index (whatever
\* hours that entry carries), and no last-day close is returned.
C6_IndexedPoiAvailable ==
    (AvailReturned("is_available_in_period")
     /\ ~TimeConstrained(avail_request.constraint))
    => /\ avail_response[1][1] = HasHoursEntry
       /\ avail_response[1][2] = None

\* A POI found in the index through its slug is available with no time filter.
C6_Witness ==
    /\ AvailReturned("is_available_in_period")
    /\ ~TimeConstrained(avail_request.constraint)
    /\ avail_request.bakery.name = ""
    /\ HasHoursEntry
    /\ avail_response[1] = <<TRUE, None>>


----------------------------------------------------------------------------
(* Claims about the wait-time estimator (checked under SpecWait)           *)

WaitCallIds == 1 .. Len(wait_calls)

\* The reference date and time of a call, as the spec describes them: the
\* range's start, else the clock when use-now is set, else none.
CallRefDate(call) ==
    LET c == wait_request.constraint IN
    IF c.has_date_range THEN c.start_date
    ELSE IF c.use_now_if_missing THEN <<call.clock.date>>
    ELSE None

CallRefTime(call) ==
    LET c == wait_request.constraint IN
    IF c.has_date_range
    THEN (IF c.start_time # None THEN c.start_time ELSE c.end_time)
    ELSE IF c.use_now_if_missing THEN <<call.clock.time>>
    ELSE None

Positive(v) == v # None /\ v[1].numeric /\ v[1].value > 0

RequestTotalReviews ==
    IF "A" \in DOMAIN review_stats_cache THEN review_stats_cache["A"][1] ELSE 0

\* No prediction source applicable to the call holds a value greater than 0.
NoBaseResolves(call) ==
    LET wp == wait_request.bakery.waiting_prediction
        d == CallRefDate(call)
        t == CallRefTime(call)
    IN  /\ ~Positive(wp.average_minutes)
        /\ \A k \in DOMAIN wp.predictions :
              (d # None /\ k = KOREAN_WEEKDAY_MAP[Weekday(d[1])]) =>
                 /\ ~Positive(wp.predictions[k].predicted_wait_minutes)
                 /\ (t # None /\ 600 <= t[1] /\ t[1] < 900)
                       => ~Positive(wp.predictions[k].lunch)
                 /\ (t # None /\ 1020 <= t[1] /\ t[1] < 1260)
                       => ~Positive(wp.predictions[k].dinner)

\* C7: when no base wait prediction resolves, the wait returned is exactly 0,
\* whatever the weekday, the holiday status and the total review count.
C7_UnresolvedBaseIsZero ==
    \A i \in WaitCallIds :
        NoBaseResolves(wait_calls[i]) => wait_calls[i].wait = 0

\* A Saturday holiday, 2000 reviews, and an overall average that is present
\* but not greater than 0: the wait is 0.
C7_Witness ==
    \E i \in WaitCallIds :
        /\ NoBaseResolves(wait_calls[i])
        /\ wait_calls[i].wait = 0
        /\ CallRefDate(wait_calls[i]) = <<DayOfYear(3, 1)>>
        /\ RequestTotalReviews = 2000
        /\ wait_request.bakery.waiting_prediction.average_minutes = <<Num(0 - 5)>>

NoReference(c) == ~c.has_date_range /\ ~c.use_now_if_missing

\* The review tier of the spec, in tenths: the single highest applicable one.
ReviewTier(n) ==
    IF n >= 2000 THEN 13 ELSE IF n >= 1000 THEN 12 ELSE IF n >= 500 THEN 11 ELSE 10

\* C8 as stated: with no date range and the use-now flag not set, the wait is 0
\* for every POI.
C8_NoReferenceIsZero ==
    \A i \in WaitCallIds :
        NoReference(wait_request.constraint) => wait_calls[i].wait = 0

\* C8 amended: with no date range and the use-now flag not set, no weekday or
\* time-band prediction and no weekend or holiday factor is applied: the wait
\* is the overall average times the review tier when that average is greater
\* than 0, and 0 otherwise.
C8_NoReferenceUsesOverall ==
    \A i \in WaitCallIds :
        NoReference(wait_request.constraint) =>
            wait_calls[i].wait =
                LET avg == wait_request.bakery.waiting_prediction.average_minutes
                IN  IF Positive(avg)
                    THEN avg[1].value * 100 * ReviewTier(RequestTotalReviews)
                    ELSE 0

\* No reference, called on the Saturday holiday, Saturday predictions present:
\* the wait is the overall average 20 times the 2000-review tier 1.3.
C8_Witness ==
    \E i \in WaitCallIds :
        /\ NoReference(wait_request.constraint)
        /\ wait_calls[i].clock.date = DayOfYear(3, 1)
        /\ "toyoil" \in DOMAIN wait_request.bakery.waiting_prediction.predictions
        /\ RequestTotalReviews = 2000
        /\ wait_calls[i].wait = 20 * 100 * 13

\* C9: when a base wait greater than 0 resolves, the wait is base x weekend
\* factor (1.2 on Saturday/Sunday) x holiday factor (1.3 on a fixed holiday) x
\* the single highest review tier (1.1 / 1.2 / 1.3 from 500 / 1000 / 2000).
C9_WeightedWait ==
    \A i \in WaitCallIds :
        LET d == CallRefDate(wait_calls[i])
            base == BaseWait(wait_request.bakery.waiting_prediction,
                             [date |-> d, time |-> CallRefTime(wait_calls[i])])
            weekend == IF d # None /\ Weekday(d[1]) \in {5, 6} THEN 12 ELSE 10
            holiday == IF d # None /\ is_public_holiday(d[1]) THEN 13 ELSE 10
        IN  base > 0 =>
              wait_calls[i].wait
                 = base * weekend * holiday * ReviewTier(RequestTotalReviews)

\* Base 20 on the Saturday holiday with 2000 reviews: 20 x 1.2 x 1.3 x 1.3.
C9_Witness ==
    \E i \in WaitCallIds :
        /\ CallRefDate(wait_calls[i]) = <<DayOfYear(3, 1)>>
        /\ RequestTotalReviews = 2000
        /\ wait_calls[i].wait = 20 * 12 * 13 * 13

\* C10 as stated: two calls with the same POI, constraint and review index
\* return the same wait, for every constraint.
C10_SameInputsSameWait ==
    \A i, j \in WaitCallIds : wait_calls[i].wait = wait_calls[j].wait

\* C10 amended: two calls with the same POI, constraint and review index return
\* the same wait whenever the use-now flag is not set, at whatever instants the
\* calls are made; with the flag set the wait is a function of these inputs
\* and of datetime.now(), so two calls made at the same instant agree.
C10_DeterministicUpToClock ==
    \A i, j \in WaitCallIds :
        (~wait_request.constraint.use_now_if_missing
         \/ wait_calls[i].clock = wait_calls[j].clock)
        => wait_calls[i].wait = wait_calls[j].wait

\* A dated request estimated on two different days, one a weekend: same wait.
C10_Witness ==
    /\ Len(wait_calls) >= 2
    /\ wait_request.constraint.has_date_range
    /\ Weekday(wait_calls[1].clock.date) < 5
    /\ Weekday(wait_calls[2].clock.date) >= 5
    /\ wait_calls[1].wait > 0
    /\ wait_calls[1].wait = wait_calls[2].wait

----------------------------------------------------------------------------
(* Strings, lists and floats of the ranking engines                        *)
(*  - A str is the sequence of its characters; a Hangul syllable is one    *)
(*    character and is written by its romanisation ("seong"), a space is   *)
(*    " ".                                                                 *)
(*  - A score is kept in ten-thousandths; a rating is kept in tenths.  The  *)
(*    inputs of ranking_utils.py are chosen so that every logarithm, and   *)
(*    so every score, is an exact number of ten-thousandths.               *)

\* Python's `flag in name` on two str values.
Contains(name, flag) ==
    \E i \in 1..(Len(name) - Len(flag) + 1) :
        SubSeq(name, i, i + Len(flag) - 1) = flag

SeqMax(a, b) == IF a >= b THEN a ELSE b
SeqMin(a, b) == IF a <= b THEN a ELSE b

\* lst[:k] for k >= 0
Take(lst, k) == SubSeq(lst, 1, SeqMin(k, Len(lst)))

\* list.sort(key=lambda x: x["score"], reverse=True): the sort is stable, so
\* an item stays behind every earlier item whose score is not lower.
RECURSIVE InsertDesc(_, _)
InsertDesc(sorted, item) ==
    IF sorted = <<>> THEN <<item>>
    ELSE IF Head(sorted).score >= item.score
         THEN <<Head(sorted)>> \o InsertDesc(Tail(sorted), item)
         ELSE <<item>> \o sorted

RECURSIVE SortDesc(_)
SortDesc(items) ==
    IF items = <<>> THEN <<>>
    ELSE InsertDesc(SortDesc(SubSeq(items, 1, Len(items) - 1)),
                    items[Len(items)])

\* math.log10(n) in ten-thousandths, rounded down, for the arguments the
\* model passes to it.
Log10(n) ==
    CASE n = 1 -> 0
      [] n = 2 -> 3010
      [] n = 3 -> 4771
      [] n = 4 -> 6020
      [] n = 5 -> 6989
      [] n = 10 -> 10000
      [] n = 32 -> 15051
      [] n = 41 -> 16127
      [] n = 51 -> 17075
      [] n = 100 -> 20000
      [] n = 1000 -> 30000
      [] n = 10000 -> 40000
      [] n = 50001 -> 46989

----------------------------------------------------------------------------
(* ranking_module.py: rank_bakeries                                        *)

KNOWN_FLAGSHIP_NAMES == <<
    <<"seong", "sim", "dang">>,
    <<"jeong", "in", "gu", "pat", "ppang">>,
    <<"kol", "deu", "beo", "teo", "be", "i", "keu", "syap">>,
    <<"gu", "o", "be", "i", "keu", "syap">>,
    <<"de", "a", "ro", "jeu">>,
    <<"dae", "jeon", "sa", "ram", " ", "su", "bu", "ssi">>,
    <<"mong", "sim">> >>

\* The menu keyword a query can name, and keyword_details.keyword_stats of a
\* POI whose reviews mention it c times.
MenuKeyword == "sogeumppang"
MenuKeywordLists == {<<>>, <<MenuKeyword>>}
KeywordStats(c) ==
    IF c = 0 THEN <<>> ELSE [k \in {MenuKeyword} |-> [pos_count |-> c]]

\* sum of int(count) over review_keywords
RECURSIVE SumCounts(_)
SumCounts(review_keywords) ==
    IF review_keywords = <<>> THEN 0
    ELSE Head(review_keywords).count + SumCounts(Tail(review_keywords))

\* name -> total; a later POI of the same name overwrites an earlier one and
\* a POI without a name is skipped.
build_review_stats_cache(bakeries) ==
    [n \in {bakeries[i].name : i \in DOMAIN bakeries} \ {<<>>} |->
        LET last == CHOOSE i \in DOMAIN bakeries :
                        /\ bakeries[i].name = n
                        /\ \A j \in DOMAIN bakeries :
                               bakeries[j].name = n => j <= i
        IN  SumCounts(bakeries[last].review_keywords)]

\* review_stats_cache.get(name, (0, {}))[0]
CachedTotal(cache, name) == IF name \in DOMAIN cache THEN cache[name] ELSE 0

\* rating.naver_rate or rating.kakao_rate as a float, in tenths; 0.0 if absent
_parse_rating(bakery) ==
    IF bakery.rating = None THEN 0 ELSE Get(bakery.rating)

\* popularity on the 0..10 scale, in ten-thousandths
compute_popularity_score(bakery, cache) ==
    LET rating == _parse_rating(bakery)
        total_reviews == CachedTotal(cache, bakery.name)
        rating_norm == IF rating > 0 THEN rating * 200 ELSE 5000
        review_norm == (Log10(total_reviews + 1) * 10000)
                           \div Log10(50001)
    IN  6 * rating_norm + 4 * review_norm

\* filter_bakeries_by_transport and the station-access filter keep the POIs
\* within reach of the user; `reachable` is the outcome of their distance
\* tests for the POI.
PreFiltered(candidates) ==
    SelectSeq([i \in DOMAIN candidates |-> [idx |-> i, bakery |-> candidates[i]]],
              LAMBDA c : c.bakery.reachable)

\* menu_count of one POI: the pos_count of every menu keyword, summed
RECURSIVE MenuCount(_, _)
MenuCount(kw_stats, menu_keywords) ==
    IF menu_keywords = <<>> THEN 0
    ELSE (IF Head(menu_keywords) \in DOMAIN kw_stats
          THEN kw_stats[Head(menu_keywords)].pos_count ELSE 0)
         + MenuCount(kw_stats, Tail(menu_keywords))

Precomputed(pre_filtered, menu_keywords, cache) ==
    [i \in DOMAIN pre_filtered |->
        LET b == pre_filtered[i].bakery
        IN  [idx |-> pre_filtered[i].idx,
             name |-> b.name,
             total_reviews |-> CachedTotal(cache, b.name),
             popularity |-> compute_popularity_score(b, cache),
             menu_count |-> MenuCount(b.keyword_stats, menu_keywords)]]

RECURSIVE MaxMenuCount(_)
MaxMenuCount(precomputed) ==
    IF precomputed = <<>> THEN 0
    ELSE SeqMax(Head(precomputed).menu_count, MaxMenuCount(Tail(precomputed)))

\* A threshold without the absolute minimum of 3.
MenuThresholdRelativeOnly(max_menu_count) == max_menu_count \div 10

\* threshold = max(min_abs, int(max_menu_count * 0.1))
MenuThreshold(max_menu_count) == SeqMax(3, max_menu_count \div 10)

FilteredForScoring(precomputed, has_menu_focus) ==
    LET max_menu_count == MaxMenuCount(precomputed)
        kept == SelectSeq(precomputed,
                    LAMBDA row : row.menu_count >= MenuThreshold(max_menu_count))
    IN  IF ~has_menu_focus \/ max_menu_count <= 0 THEN precomputed
        ELSE IF kept = <<>> THEN precomputed
        ELSE kept

ModuleScore(row, has_menu_focus, is_flagship_tour) ==
    LET is_flagship == \E f \in DOMAIN KNOWN_FLAGSHIP_NAMES :
                           Contains(row.name, KNOWN_FLAGSHIP_NAMES[f])
        denom == SeqMax(row.total_reviews, 1)
        pop_component == row.popularity \div 10
        score == IF has_menu_focus
                 THEN (55 * Log10(row.menu_count + 1)) \div 100
                      + (25000 * row.menu_count) \div denom
                      + (20 * pop_component) \div 100
                 ELSE pop_component
    IN  score + (IF is_flagship_tour /\ is_flagship THEN 15000 ELSE 0)

ranking_module_rank_bakeries(candidates, menu_keywords, is_flagship_tour, top_k) ==
    LET cache == build_review_stats_cache(candidates)
        has_menu_focus == Len(menu_keywords) > 0
        precomputed == Precomputed(PreFiltered(candidates), menu_keywords, cache)
        filtered == FilteredForScoring(precomputed, has_menu_focus)
        scored == SortDesc([i \in DOMAIN filtered |->
                      [idx |-> filtered[i].idx,
                       menu_count |-> filtered[i].menu_count,
                       score |-> ModuleScore(filtered[i], has_menu_focus,
                                             is_flagship_tour)]])
        cut == IF top_k # None /\ Get(top_k) > 0
               THEN Take(scored, Get(top_k)) ELSE scored
    IN  [max_menu_count |-> MaxMenuCount(precomputed),
         pre_filtered |-> [i \in DOMAIN precomputed |-> precomputed[i].idx],
         scored |-> scored,
         ranked_bakeries |-> [i \in DOMAIN cut |-> cut[i].idx]]

----------------------------------------------------------------------------
(* Bounds and state machine of ranking_module.rank_bakeries                *)

MaxCandidates == 3

\* The names of the POIs of the model.
Names ==
    [hare |-> <<"ha", "re", "ha", "re">>,
     seongsimdang |-> <<"seong", "sim", "dang", " ", "bon", "jeom">>,
     seongsimdang_station |->
         <<"seong", "sim", "dang", " ", "dae", "jeon", "yeok", "jeom">>,
     seongsimdang_cake |-> <<"seong", "sim", "dang", "ke", "ik">>,
     mongsim |-> <<"mong", "sim", " ", "do", "an", "jeom">>,
     mongsim_hannam |-> <<"mong", "sim", " ", "han", "nam", "dae", "jeom">>,
     cold_butter |-> <<"kol", "deu", "beo", "teo">>,
     none |-> <<>>]

\* pos_count values: none, below the absolute minimum, at it, above it, and
\* two maxima whose tenth is 3.1 and 4.0
MenuCounts == {0, 2, 3, 4, 31, 40}

ModuleBakery(name, rating, total, c, reachable) ==
    [name |-> name,
     rating |-> rating,
     review_keywords |-> IF total = 0 THEN <<>>
                         ELSE <<[keyword |-> "ppang-i mas-iss-eoyo",
                                 count |-> total]>>,
     keyword_stats |-> KeywordStats(c),
     reachable |-> reachable]

ModuleBakeries ==
    {ModuleBakery(Names.hare, Some(45), 999, c, TRUE) : c \in MenuCounts}
    \cup {ModuleBakery(Names.seongsimdang, Some(40), 999, 3, TRUE),
          ModuleBakery(Names.mongsim, None, 0, 0, TRUE),
          ModuleBakery(Names.hare, Some(45), 50, 2, TRUE),
          ModuleBakery(Names.hare, Some(45), 999, 40, FALSE)}

ModuleRequests ==
    [candidates : UNION {[1..n -> ModuleBakeries] : n \in 0..MaxCandidates},
     menu_keywords : MenuKeywordLists,
     is_flagship_tour : BOOLEAN,
     top_k : {None, Some(2)}]

InitRankModule ==
    /\ module_request \in ModuleRequests
    /\ module_response = None
    /\ IdleAvail /\ IdleWait /\ IdleExcept("ranking_module")

RankBakeriesModule ==
    /\ module_response = None
    /\ module_response' = Some(ranking_module_rank_bakeries(
                                   module_request.candidates,
                                   module_request.menu_keywords,
                                   module_request.is_flagship_tour,
                                   module_request.top_k))
    /\ UNCHANGED <<module_request, utils_request, utils_response, availVars,
                   waitVars, tourVars,
                   hostVars>>

SpecRankModule == InitRankModule /\ [][RankBakeriesModule]_vars

----------------------------------------------------------------------------
(* Claims about ranking_module.rank_bakeries (checked under SpecRankModule) *)

ModuleReturned == module_response # None
ModuleResult == Get(module_response)
MenuCut ==
    /\ ModuleReturned
    /\ module_request.menu_keywords # <<>>
    /\ ModuleResult.max_menu_count > 0

CeilTenth(n) == (n + 9) \div 10
FloorTenth(n) == n \div 10

\* C11 as stated: whenever menu keywords are supplied and the largest menu
\* count over the candidates is positive, every candidate that survives into
\* scoring has a menu count >= max(3, ceil(0.1 * max)).
C11_SurvivorsAboveCeilThreshold ==
    MenuCut =>
        \A i \in DOMAIN ModuleResult.scored :
            ModuleResult.scored[i].menu_count
                >= SeqMax(3, CeilTenth(ModuleResult.max_menu_count))

\* C11 amended: the relative part of the threshold is rounded down, and the
\* cut is skipped when it would remove every candidate.  When the largest
\* menu count is at least 3, every candidate that survives into scoring has a
\* menu count >= max(3, floor(0.1 * max)); when it is 1 or 2, every candidate
\* that passed the transport filter survives.
C11_SurvivorsAboveFloorThreshold ==
    MenuCut =>
        IF ModuleResult.max_menu_count >= 3
        THEN \A i \in DOMAIN ModuleResult.scored :
                 ModuleResult.scored[i].menu_count
                     >= SeqMax(3, FloorTenth(ModuleResult.max_menu_count))
        ELSE Len(ModuleResult.scored) = Len(ModuleResult.pre_filtered)

\* A maximum of 40 sets the threshold to 4: a candidate with 3 mentions is
\* cut and one with 4 survives.
C11_Witness ==
    /\ MenuCut
    /\ ModuleResult.max_menu_count = 40
    /\ Len(ModuleResult.pre_filtered) = 3
    /\ Len(ModuleResult.scored) = 2
    /\ \E i \in DOMAIN ModuleResult.scored : ModuleResult.scored[i].menu_count = 4

----------------------------------------------------------------------------
(* ranking_utils.py: rank_bakeries                                         *)

\* bakery["rating"] on the 0..10 scale, halved when above 5; 4.0 if absent
_safe_rating(bakery) ==
    IF bakery.rating = None THEN 40
    ELSE IF Get(bakery.rating) > 50 THEN Get(bakery.rating) \div 2
    ELSE Get(bakery.rating)

\* review_stats_cache.get(name, (0, {}))
_get_review_stats(name, cache) ==
    IF name \in DOMAIN cache THEN cache[name]
    ELSE [total |-> 0, kw_counts |-> <<>>]

\* kw_counts.get(keyword, 0)
KwCount(kw_counts, keyword) ==
    IF keyword \in DOMAIN kw_counts THEN kw_counts[keyword] ELSE 0

\* sum of log10(pos_count + 1) over the menu keywords that have a stat with
\* a positive count (menu_keywords holds no keyword twice)
RECURSIVE MenuIntensity(_, _)
MenuIntensity(kw_stats, menu_keywords) ==
    IF menu_keywords = <<>> THEN 0
    ELSE (IF Head(menu_keywords) \in DOMAIN kw_stats
             /\ kw_stats[Head(menu_keywords)].pos_count > 0
          THEN Log10(kw_stats[Head(menu_keywords)].pos_count + 1) ELSE 0)
         + MenuIntensity(kw_stats, Tail(menu_keywords))

Range(lst) == {lst[i] : i \in DOMAIN lst}

_compute_base_score(bakery, menu_keywords, is_flagship_tour, cache, known_flagship_names) ==
    LET rating == _safe_rating(bakery)
        total_reviews == _get_review_stats(bakery.name, cache).total
        pop_score == Log10(total_reviews + 1)
        menu_match_cnt == Cardinality(Range(menu_keywords)
                                          \cap bakery.final_keywords)
        menu_intensity_score ==
            IF menu_match_cnt > 0
            THEN MenuIntensity(bakery.keyword_stats, menu_keywords) ELSE 0
        bonus == IF is_flagship_tour
                    /\ \E f \in DOMAIN known_flagship_names :
                           /\ known_flagship_names[f] # <<>>
                           /\ Contains(bakery.name, known_flagship_names[f])
                 THEN 5000 ELSE 0
        base == IF menu_keywords = <<>>
                THEN rating * 600 + (pop_score * 4) \div 10
                ELSE IF menu_match_cnt > 0
                THEN menu_intensity_score * 3 + rating * 500
                     + (pop_score * 2) \div 10 + bonus
                ELSE rating * 500 + (pop_score * 3) \div 10 + bonus
    IN  [score |-> base, total_reviews |-> total_reviews,
         menu_match_cnt |-> menu_match_cnt]

\* name.split()[0] of a name that holds a character other than a space
RECURSIVE FirstToken(_)
FirstToken(name) ==
    IF name = <<>> THEN <<>>
    ELSE IF Head(name) = " "
         THEN (IF \A i \in DOMAIN name : name[i] = " " THEN <<>>
               ELSE FirstToken(Tail(name)))
    ELSE IF Len(name) = 1 \/ name[2] = " " THEN <<Head(name)>>
    ELSE <<Head(name)>> \o FirstToken(Tail(name))

_extract_brand_key(name, known_flagship_names) ==
    LET hits == {f \in DOMAIN known_flagship_names :
                    /\ known_flagship_names[f] # <<>>
                    /\ Contains(name, known_flagship_names[f])}
    IN  IF name = <<>> THEN <<>>
        ELSE IF hits # {}
        THEN known_flagship_names[CHOOSE f \in hits : \A g \in hits : f <= g]
        ELSE FirstToken(name)

\* The review keywords read by the coffee test.
TourKeywords == [coffee |-> "keopi-ga mas-iss-eoyo",
                 bread |-> "ppang-i mas-iss-eoyo",
                 dessert |-> "dijeoteu-ga mas-iss-eoyo"]

\* The test with a strict comparison against the ratio 1.4.
CoffeeRatioReachedStrict(coffee, main_sweet) == coffee * 10 > 14 * main_sweet

\* (coffee / main_sweet) >= coffee_threshold_ratio, the ratio being 1.4
CoffeeRatioReached(coffee, main_sweet) == coffee * 10 >= 14 * main_sweet

_is_coffee_dominant_for_tour(name, cache) ==
    LET kw_counts == _get_review_stats(name, cache).kw_counts
        coffee == KwCount(kw_counts, TourKeywords.coffee)
        main_sweet == SeqMax(KwCount(kw_counts, TourKeywords.bread),
                             KwCount(kw_counts, TourKeywords.dessert))
    IN  IF DOMAIN kw_counts = {} THEN FALSE
        ELSE IF coffee <= 0 THEN FALSE
        ELSE IF main_sweet = 0 THEN TRUE
        ELSE CoffeeRatioReached(coffee, main_sweet)

MIN_REVIEWS_FOR_TOUR == 200

\* A selection that ignores the brand: the first top_k items.
SelectIgnoringBrands(items, selected, used_brands, known_flagship_names, top_k) ==
    Take(items, top_k)

\* The loop of step 3-2: items in score order, stopping at top_k, skipping an
\* item whose non-empty brand key is already used.
RECURSIVE SelectDistinctBrands(_, _, _, _, _)
SelectDistinctBrands(items, selected, used_brands, known_flagship_names, top_k) ==
    IF items = <<>> \/ Len(selected) >= top_k THEN selected
    ELSE LET brand_key == _extract_brand_key(Head(items).name,
                                             known_flagship_names)
         IN  IF brand_key # <<>> /\ brand_key \in used_brands
             THEN SelectDistinctBrands(Tail(items), selected, used_brands,
                                       known_flagship_names, top_k)
             ELSE SelectDistinctBrands(
                      Tail(items), Append(selected, Head(items)),
                      IF brand_key # <<>> THEN used_brands \cup {brand_key}
                      ELSE used_brands,
                      known_flagship_names, top_k)

\* No back-fill: the brand-distinct selection is returned as it is.
BackFillNone(items, selected, already_ids, top_k) == selected

\* The loop of step 3-3: items not selected by 3-2 are appended, in score
\* order, until top_k is reached.
RECURSIVE BackFill(_, _, _, _)
BackFill(items, selected, already_ids, top_k) ==
    IF items = <<>> \/ Len(selected) >= top_k THEN selected
    ELSE IF Head(items).idx \in already_ids
    THEN BackFill(Tail(items), selected, already_ids, top_k)
    ELSE BackFill(Tail(items), Append(selected, Head(items)), already_ids,
                  top_k)

\* A cut that is released only when it leaves nothing.
TourCutReleasedWhenEmpty(scored_items, passed, top_k) ==
    IF passed = <<>> THEN scored_items ELSE passed

\* The release of the tour-mode cut of step 3-1: with fewer than top_k
\* candidates left, the whole scored list is used.
FlagshipCandidates(scored_items, passed, top_k) ==
    IF Len(passed) < top_k THEN scored_items ELSE passed

\* The value returned is `result`; the other fields are the locals of the
\* call, kept for the claims.
ranking_utils_rank_bakeries(candidates, menu_keywords, is_flagship_tour, cache, known_flagship_names, top_k) ==
    LET computed == [i \in DOMAIN candidates |->
                        [idx |-> i, name |-> candidates[i].name]
                        @@ _compute_base_score(candidates[i], menu_keywords,
                               is_flagship_tour, cache, known_flagship_names)]
        sorted == SortDesc(computed)
        menu_matched == SelectSeq(sorted, LAMBDA it : it.menu_match_cnt > 0)
        scored_items == IF menu_keywords # <<>> /\ Len(menu_matched) >= top_k
                        THEN menu_matched ELSE sorted
        checked == SelectSeq(scored_items,
                       LAMBDA it : ~(it.total_reviews < MIN_REVIEWS_FOR_TOUR))
        passed == SelectSeq(checked,
                      LAMBDA it : ~_is_coffee_dominant_for_tour(it.name, cache))
        flagship_candidates == FlagshipCandidates(scored_items, passed, top_k)
        deduped == SelectDistinctBrands(flagship_candidates, <<>>, {},
                                        known_flagship_names, top_k)
        selected == IF Len(deduped) < top_k
                    THEN BackFill(flagship_candidates, deduped,
                                  {deduped[i].idx : i \in DOMAIN deduped}, top_k)
                    ELSE deduped
    IN  IF ~is_flagship_tour
        THEN [sorted |-> sorted, scored_items |-> scored_items,
              coffee_checked |-> {},
              passed |-> <<>>, flagship_candidates |-> <<>>, deduped |-> <<>>,
              result |-> Take(scored_items, top_k)]
        ELSE [sorted |-> sorted, scored_items |-> scored_items,
              coffee_checked |-> {checked[i].idx : i \in DOMAIN checked},
              passed |-> passed,
              flagship_candidates |-> flagship_candidates,
              deduped |-> deduped,
              result |-> selected]

----------------------------------------------------------------------------
(* Bounds and state machine of ranking_utils.rank_bakeries                 *)

ReviewStats(total, coffee, bread, dessert) ==
    LET count == (TourKeywords.coffee :> coffee) @@ (TourKeywords.bread :> bread)
                 @@ (TourKeywords.dessert :> dessert)
    IN  [total |-> total,
         kw_counts |-> [k \in {k2 \in DOMAIN count : count[k2] > 0} |-> count[k]]]

\* The review index built at start-up: per name, the review total and the
\* counts of the coffee, bread and dessert keywords.
TourReviewStatsCache ==
    (Names.seongsimdang :> ReviewStats(999, 0, 5, 0))
    @@ (Names.seongsimdang_station :> ReviewStats(999, 6, 5, 0))
    @@ (Names.seongsimdang_cake :> ReviewStats(999, 7, 0, 5))
    @@ (Names.hare :> ReviewStats(999, 8, 5, 0))
    @@ (Names.mongsim :> ReviewStats(99, 0, 0, 0))
    @@ (Names.mongsim_hannam :> ReviewStats(999, 7, 0, 0))
    @@ (Names.cold_butter :> ReviewStats(9999, 0, 5, 0))

UtilsBakery(name, rating, final_keywords, c) ==
    [name |-> name, rating |-> rating, final_keywords |-> final_keywords,
     keyword_stats |-> KeywordStats(c)]

UtilsBakeries ==
    {UtilsBakery(Names.seongsimdang, None, {MenuKeyword}, 99),
     UtilsBakery(Names.seongsimdang_station, Some(90), {MenuKeyword}, 9),
     UtilsBakery(Names.seongsimdang_cake, None, {}, 0),
     UtilsBakery(Names.hare, Some(90), {MenuKeyword}, 9),
     UtilsBakery(Names.mongsim, Some(10), {MenuKeyword}, 0),
     UtilsBakery(Names.mongsim_hannam, None, {}, 0),
     UtilsBakery(Names.none, None, {MenuKeyword}, 9),
     UtilsBakery(Names.cold_butter, Some(100), {}, 0)}

UtilsRequests ==
    [candidates : UNION {[1..n -> UtilsBakeries] : n \in 0..MaxCandidates},
     menu_keywords : MenuKeywordLists,
     is_flagship_tour : BOOLEAN,
     review_stats_cache : {<<>>, TourReviewStatsCache},
     known_flagship_names : {<<>>, <<KNOWN_FLAGSHIP_NAMES[1]>>},
     top_k : {1, 2, 3}]

InitRankUtils ==
    /\ utils_request \in UtilsRequests
    /\ utils_response = None
    /\ IdleAvail /\ IdleWait /\ IdleExcept("ranking_utils")

RankBakeriesUtils ==
    /\ utils_response = None
    /\ utils_response' = Some(ranking_utils_rank_bakeries(
                                  utils_request.candidates,
                                  utils_request.menu_keywords,
                                  utils_request.is_flagship_tour,
                                  utils_request.review_stats_cache,
                                  utils_request.known_flagship_names,
                                  utils_request.top_k))
    /\ UNCHANGED <<utils_request, module_request, module_response, availVars,
                   waitVars, tourVars,
                   hostVars>>

SpecRankUtils == InitRankUtils /\ [][RankBakeriesUtils]_vars

----------------------------------------------------------------------------
(* Claims about ranking_utils.rank_bakeries (checked under SpecRankUtils)  *)

UtilsReturned == utils_response # None
UtilsResult == Get(utils_response)
UtilsCandidate(item) == utils_request.candidates[item.idx]
TourMode == UtilsReturned /\ utils_request.is_flagship_tour

ResultIds == {UtilsResult.result[i].idx : i \in DOMAIN UtilsResult.result}

\* C12: with menu keywords, a candidate without a keyword match scores
\* strictly lower than every candidate with a match, so no zero-match
\* candidate precedes a matching one in the ranked output.
C12_ZeroMatchRankedBelowMatch ==
    (UtilsReturned /\ utils_request.menu_keywords # <<>>) =>
        /\ \A i, j \in DOMAIN UtilsResult.sorted :
               (UtilsResult.sorted[i].menu_match_cnt = 0
                /\ UtilsResult.sorted[j].menu_match_cnt > 0)
               => UtilsResult.sorted[i].score < UtilsResult.sorted[j].score
        /\ \A i, j \in DOMAIN UtilsResult.result :
               (UtilsResult.result[i].menu_match_cnt = 0
                /\ UtilsResult.result[j].menu_match_cnt > 0)
               => j < i

StatsOf(item) == _get_review_stats(item.name, utils_request.review_stats_cache)
BelowReviewFloor(item) == StatsOf(item).total < 200
PassedIds == {UtilsResult.passed[i].idx : i \in DOMAIN UtilsResult.passed}

\* C13: in tour mode the candidates below the review floor of 200 and the
\* coffee-dominant ones are dropped; when fewer than top_k candidates are
\* left (none included) the cut is abandoned and the whole scored list is
\* used; when at least top_k are left no dropped candidate is returned.
C13_TourCutOrFallback ==
    TourMode =>
        /\ \A i \in DOMAIN UtilsResult.scored_items :
               LET it == UtilsResult.scored_items[i]
               IN  it.idx \in PassedIds
                   <=> ~BelowReviewFloor(it)
                       /\ ~_is_coffee_dominant_for_tour(
                               it.name, utils_request.review_stats_cache)
        /\ IF Len(UtilsResult.passed) >= utils_request.top_k
           THEN ResultIds \subseteq PassedIds
           ELSE /\ UtilsResult.flagship_candidates = UtilsResult.scored_items
                /\ Len(UtilsResult.result)
                       = SeqMin(utils_request.top_k,
                                Len(UtilsResult.scored_items))

\* One candidate passes the cut and two are asked for: a dropped candidate is
\* returned.
C13_Witness ==
    /\ TourMode
    /\ utils_request.top_k = 2
    /\ Len(UtilsResult.passed) = 1
    /\ Len(UtilsResult.result) = 2
    /\ \E i \in DOMAIN UtilsResult.result :
           /\ UtilsResult.result[i].idx \notin PassedIds
           /\ ~BelowReviewFloor(UtilsResult.result[i])

Coffee(item) == KwCount(StatsOf(item).kw_counts, TourKeywords.coffee)
MainSweet(item) == SeqMax(KwCount(StatsOf(item).kw_counts, TourKeywords.bread),
                          KwCount(StatsOf(item).kw_counts, TourKeywords.dessert))
JudgedCoffeeDominant(item) ==
    item.idx \in UtilsResult.coffee_checked /\ item.idx \notin PassedIds

\* C14 as stated: a candidate is judged coffee-dominant iff its coffee count
\* is non-zero and either max(bread, dessert) is 0 or coffee / max(bread,
\* dessert) is strictly greater than 1.4.
C14_CoffeeDominantStrictlyAbove ==
    TourMode =>
        \A i \in DOMAIN UtilsResult.scored_items :
            LET it == UtilsResult.scored_items[i]
            IN  it.idx \in UtilsResult.coffee_checked =>
                (JudgedCoffeeDominant(it)
                 <=> /\ Coffee(it) # 0
                     /\ \/ MainSweet(it) = 0
                        \/ Coffee(it) * 10 > 14 * MainSweet(it))

\* C14 amended: a candidate is judged coffee-dominant iff its coffee count is
\* non-zero and either max(bread, dessert) is 0 or coffee / max(bread,
\* dessert) is at least 1.4; a ratio of exactly 1.4 is coffee-dominant.
C14_CoffeeDominantAtOrAbove ==
    TourMode =>
        \A i \in DOMAIN UtilsResult.scored_items :
            LET it == UtilsResult.scored_items[i]
            IN  it.idx \in UtilsResult.coffee_checked =>
                (JudgedCoffeeDominant(it)
                 <=> /\ Coffee(it) # 0
                     /\ \/ MainSweet(it) = 0
                        \/ Coffee(it) * 10 >= 14 * MainSweet(it))

\* A candidate with 7 coffee and 5 dessert mentions is judged coffee-dominant,
\* next to one with 6 coffee and 5 bread mentions that is not.
C14_Witness ==
    /\ TourMode
    /\ \E i, j \in DOMAIN UtilsResult.scored_items :
           LET a == UtilsResult.scored_items[i]
               b == UtilsResult.scored_items[j]
           IN  /\ Coffee(a) = 7 /\ MainSweet(a) = 5 /\ JudgedCoffeeDominant(a)
               /\ Coffee(b) = 6 /\ MainSweet(b) = 5
               /\ b.idx \in PassedIds

BrandKeyOf(item) ==
    _extract_brand_key(item.name, utils_request.known_flagship_names)

\* The brand keys of the eligible candidates; a POI without a name has none.
EligibleBrandKeys ==
    {BrandKeyOf(UtilsResult.flagship_candidates[i]) :
        i \in DOMAIN UtilsResult.flagship_candidates} \ {<<>>}

\* C15: in tour mode the result holds at most one POI per brand key (the
\* first known brand name contained in the name, else the first
\* whitespace-delimited token of the name), unless top_k exceeds the number
\* of distinct brand keys among the eligible candidates.
C15_OnePoiPerBrand ==
    (TourMode /\ utils_request.top_k <= Cardinality(EligibleBrandKeys)) =>
        \A i, j \in DOMAIN UtilsResult.result :
            (i # j /\ BrandKeyOf(UtilsResult.result[i]) # <<>>)
            => BrandKeyOf(UtilsResult.result[i])
                   # BrandKeyOf(UtilsResult.result[j])

\* Two POIs of one brand lead the eligible list and two brands are asked
\* for: the lower-scored one of the pair is passed over for a POI of another
\* brand that scores below it.
C15_Witness ==
    /\ TourMode
    /\ utils_request.top_k = 2
    /\ Cardinality(EligibleBrandKeys) = 2
    /\ Len(UtilsResult.flagship_candidates) = 3
    /\ BrandKeyOf(UtilsResult.flagship_candidates[1])
           = BrandKeyOf(UtilsResult.flagship_candidates[2])
    /\ UtilsResult.flagship_candidates[2].score
           > UtilsResult.flagship_candidates[3].score
    /\ ResultIds = {UtilsResult.flagship_candidates[1].idx,
                    UtilsResult.flagship_candidates[3].idx}

\* C16: in tour mode, when the brand-distinct selection holds fewer than
\* top_k entries it is refilled from the remaining eligible candidates, so
\* the result has exactly min(top_k, number of eligible candidates) entries
\* and holds no POI twice.
C16_BackFillToTopK ==
    TourMode =>
        /\ Len(UtilsResult.result)
               = SeqMin(utils_request.top_k,
                        Len(UtilsResult.flagship_candidates))
        /\ \A i, j \in DOMAIN UtilsResult.result :
               i # j => UtilsResult.result[i].idx # UtilsResult.result[j].idx
        /\ ResultIds \subseteq {UtilsResult.flagship_candidates[i].idx :
                                   i \in DOMAIN UtilsResult.flagship_candidates}
        /\ SubSeq(UtilsResult.result, 1, Len(UtilsResult.deduped))
               = UtilsResult.deduped

\* Three eligible POIs of two brands with top_k = 3: two brand-distinct
\* entries and one back-filled repeat of a brand.
C16_Witness ==
    /\ TourMode
    /\ utils_request.top_k = 3
    /\ Cardinality(EligibleBrandKeys) = 2
    /\ Len(UtilsResult.deduped) = 2
    /\ Len(UtilsResult.result) = 3
    /\ BrandKeyOf(UtilsResult.result[3]) = BrandKeyOf(UtilsResult.result[1])

\* C17: the result holds at most top_k pairs and is in score order: of two
\* adjacent entries the earlier one's score is >= the later one's, in every
\* mode, tour mode included.
C17_AtMostTopKInScoreOrder ==
    UtilsReturned =>
        /\ Len(UtilsResult.result) <= utils_request.top_k
        /\ \A i \in 1..(Len(UtilsResult.result) - 1) :
               UtilsResult.result[i].score >= UtilsResult.result[i + 1].score

----------------------------------------------------------------------------
(* subway_tour_planner.py: build_subway_contiguous_tour                    *)
(* A bakery is [idx, score, station]: its position in the input, its score *)
(* under score_key and the station_index of its subway_info (None without  *)
(* subway_info).                                                           *)

MaxStationIndex == 2

\* by_station[idx]: the bakeries of one station, by descending score
StationBakeries(bakeries, idx) ==
    SortDesc(SelectSeq(bakeries, LAMBDA b : b.station = Some(idx)))

RECURSIVE SumScores(_)
SumScores(selected) ==
    IF selected = <<>> THEN 0
    ELSE Head(selected).score + SumScores(Tail(selected))

\* The candidates of the stations left..right, every bakery of a station taken.
RECURSIVE CollectUncapped(_, _, _, _)
CollectUncapped(bakeries, left, right, max_bakeries_per_station) ==
    IF left > right THEN <<>>
    ELSE StationBakeries(bakeries, left)
         \o CollectUncapped(bakeries, left + 1, right, max_bakeries_per_station)

\* The candidates of the stations left..right in station order, at most
\* max_bakeries_per_station of each.
RECURSIVE Collect(_, _, _, _)
Collect(bakeries, left, right, max_bakeries_per_station) ==
    IF left > right THEN <<>>
    ELSE Take(StationBakeries(bakeries, left), max_bakeries_per_station)
         \o Collect(bakeries, left + 1, right, max_bakeries_per_station)

\* The interval evaluated at its left stop only.
EvaluateLeftStop(bakeries, left, right, max_total_bakeries, max_bakeries_per_station) ==
    LET selected == Take(SortDesc(Collect(bakeries, left, left,
                                          max_bakeries_per_station)),
                         max_total_bakeries)
    IN  [total_score |-> SumScores(selected), selected |-> selected]

_evaluate_interval(bakeries, left, right, max_total_bakeries, max_bakeries_per_station) ==
    LET selected == Take(SortDesc(Collect(bakeries, left, right,
                                          max_bakeries_per_station)),
                         max_total_bakeries)
    IN  [total_score |-> SumScores(selected), selected |-> selected]

\* The two nested loops over station_indices_sorted: left ascending, right
\* ascending from left; `best` changes only on a strictly higher positive
\* total.
RECURSIVE ScanIntervals(_, _, _, _, _, _)
ScanIntervals(bakeries, left, right, best, max_total_bakeries, max_bakeries_per_station) ==
    LET has_station(idx) == StationBakeries(bakeries, idx) # <<>>
        ev == _evaluate_interval(bakeries, left, right, max_total_bakeries,
                                 max_bakeries_per_station)
    IN  IF left > MaxStationIndex THEN best
        ELSE IF right > MaxStationIndex
        THEN ScanIntervals(bakeries, left + 1, left + 1, best,
                           max_total_bakeries, max_bakeries_per_station)
        ELSE ScanIntervals(
                 bakeries, left, right + 1,
                 IF /\ has_station(left) /\ has_station(right)
                    /\ ~(ev.total_score <= 0 \/ ev.selected = <<>>)
                    /\ ev.total_score > best.best_score
                 THEN [best_score |-> ev.total_score,
                       best_interval |-> Some(<<left, right>>),
                       best_bakeries |-> ev.selected]
                 ELSE best,
                 max_total_bakeries, max_bakeries_per_station)

\* A result left in the order of the interval's evaluation.
OrderByScore(best_bakeries) == best_bakeries

\* best_bakeries.sort(key=lambda x: (station_index, -score)): a stable
\* ascending sort; scores are below 1000, so the pair orders as the number
\* 1000 * station_index - score.
OrderByStation(best_bakeries) ==
    LET keyed == SortDesc([i \in DOMAIN best_bakeries |->
                     [item |-> best_bakeries[i],
                      score |-> best_bakeries[i].score
                                - 1000 * Get(best_bakeries[i].station)]])
    IN  [i \in DOMAIN keyed |-> keyed[i].item]

build_subway_contiguous_tour(bakeries, max_total_bakeries, max_bakeries_per_station) ==
    LET best == ScanIntervals(bakeries, 0, 0,
                    [best_score |-> 0, best_interval |-> None,
                     best_bakeries |-> <<>>],
                    max_total_bakeries, max_bakeries_per_station)
        no_station == \A i \in DOMAIN bakeries : bakeries[i].station = None
    IN  IF bakeries = <<>> \/ no_station
        THEN [best_interval |-> None, fallback |-> FALSE, result |-> <<>>]
        ELSE IF best.best_interval = None \/ best.best_bakeries = <<>>
        THEN [best_interval |-> None, fallback |-> TRUE,
              result |-> Take(SortDesc(bakeries), max_total_bakeries)]
        ELSE [best_interval |-> best.best_interval, fallback |-> FALSE,
              result |-> OrderByStation(best.best_bakeries)]

----------------------------------------------------------------------------
(* Bounds and state machine of build_subway_contiguous_tour                *)

SubwayBakeries ==
    [score : {0, 1, 9}, station : {None} \cup {Some(i) : i \in 0..MaxStationIndex}]

SubwayRequests ==
    [bakeries : UNION {[1..n -> SubwayBakeries] : n \in 0..MaxCandidates},
     max_total_bakeries : {2, 10},
     max_bakeries_per_station : {1, 3}]

InitSubway ==
    /\ subway_request \in SubwayRequests
    /\ subway_response = None
    /\ IdleAvail /\ IdleWait /\ IdleExcept("subway")

BuildSubwayContiguousTour ==
    /\ subway_response = None
    /\ subway_response' = Some(build_subway_contiguous_tour(
           [i \in DOMAIN subway_request.bakeries |->
               [idx |-> i] @@ subway_request.bakeries[i]],
           subway_request.max_total_bakeries,
           subway_request.max_bakeries_per_station))
    /\ UNCHANGED <<subway_request, route_request, route_response, availVars,
                   waitVars, rankVars,
                   hostVars>>

SpecSubway == InitSubway /\ [][BuildSubwayContiguousTour]_vars

----------------------------------------------------------------------------
(* Claims about build_subway_contiguous_tour (checked under SpecSubway)    *)

SubwayReturned == subway_response # None
SubwayResult == Get(subway_response).result
SubwayInterval == Get(subway_response).best_interval
SubwayIds == DOMAIN subway_request.bakeries
Located == {i \in SubwayIds : subway_request.bakeries[i].station # None}
StopOf(i) == Get(subway_request.bakeries[i].station)
ScoreOf(i) == subway_request.bakeries[i].score
ReturnedIds == {SubwayResult[i].idx : i \in DOMAIN SubwayResult}
ReturnedAt(k) == {i \in ReturnedIds \cap Located : StopOf(i) = k}

\* Non-decreasing in stop index, ties within a stop in descending score.
InStopOrder ==
    /\ ReturnedIds \subseteq Located
    /\ \A i \in 1..(Len(SubwayResult) - 1) :
           LET a == SubwayResult[i].idx
               b == SubwayResult[i + 1].idx
           IN  \/ StopOf(a) < StopOf(b)
               \/ (StopOf(a) = StopOf(b) /\ ScoreOf(a) >= ScoreOf(b))

\* Adjacent entries in descending score.
InScoreOrder ==
    \A i \in 1..(Len(SubwayResult) - 1) :
        SubwayResult[i].score >= SubwayResult[i + 1].score

\* Some interval has a positive summed score (scores are not negative).
SomePositiveInterval == \E i \in Located : ScoreOf(i) > 0

RECURSIVE SetScore(_)
SetScore(ids) ==
    IF ids = {} THEN 0
    ELSE LET i == CHOOSE x \in ids : TRUE
         IN  ScoreOf(i) + SetScore(ids \ {i})

\* A selection within the caps: at most N candidates, at most K per stop.
WithinCaps(ids) ==
    /\ Cardinality(ids) <= subway_request.max_total_bakeries
    /\ \A k \in 0..MaxStationIndex :
           Cardinality({i \in ids \cap Located : StopOf(i) = k})
               <= subway_request.max_bakeries_per_station

----------------------------------------------------------------------------
(* bakery_rag_chatbot.py: the distance-greedy sequencer                    *)
(*                                                                         *)
(* Coordinates are points of one meridian, given by their position in      *)
(* hectometres; scores and composites are in hundredths.  An item is       *)
(* [orig_idx, score, route_score, coord], coord = None for a bakery        *)
(* without usable latitude / longitude.                                    *)

MAX_WALK_MINUTES == 20

\* speed_kmh * max_min / 60.0 km, in hectometres
_max_leg_distance_km(travel_mode) ==
    CASE travel_mode = "walk" -> (3 * MAX_WALK_MINUTES * 10) \div 60
      [] travel_mode = "car" -> (30 * 30 * 10) \div 60
      [] OTHER -> (20 * 30 * 10) \div 60

\* distance_weight in tenths
DistanceWeight(travel_mode) ==
    CASE travel_mode = "walk" -> 8
      [] travel_mode = "car" -> 2
      [] OTHER -> 3

\* The great-circle distance of two points of one meridian is the length of
\* the arc between them.
haversine_distance_km(a, b) == IF a >= b THEN a - b ELSE b - a

\* it.get("route_score") or it.get("score") or 0.0
RouteBase(it) == IF it.route_score # 0 THEN it.route_score ELSE it.score

\* The nearer candidate first, whatever its score.
NearestFirst(it, from_coord, travel_mode) ==
    0 - haversine_distance_km(from_coord, Get(it.coord))

\* comp = float(base) - distance_weight * d
Composite(it, from_coord, travel_mode) ==
    RouteBase(it)
    - DistanceWeight(travel_mode)
      * haversine_distance_km(from_coord, Get(it.coord))

\* The first item of the highest value: `comp > best` in a loop over items,
\* and max(items, key=...).
FirstBest(value) ==
    CHOOSE i \in DOMAIN value : \A j \in DOMAIN value :
        value[i] > value[j] \/ (value[i] = value[j] /\ i <= j)

StartItem(items, origin_coord, travel_mode) ==
    LET located == {i \in DOMAIN items : items[i].coord # None}
    IN  IF origin_coord # None /\ located # {}
        THEN FirstBest([i \in located |->
                 Composite(items[i], Get(origin_coord), travel_mode)])
        ELSE FirstBest([i \in DOMAIN items |-> RouteBase(items[i])])

\* Every leg accepted, whatever its length.
AnyLeg(d, max_leg_km) == TRUE

\* if d > max_leg_km: continue
WithinLeg(d, max_leg_km) == ~(d > max_leg_km)

\* remaining_sorted: the items not yet placed, by descending route_score.
RemainingSorted(items, route) ==
    LET remaining == SelectSeq([i \in DOMAIN items |-> i],
                               LAMBDA i : \A k \in DOMAIN route : route[k] # i)
        keyed == SortDesc([k \in DOMAIN remaining |->
                     [id |-> remaining[k],
                      score |-> RouteBase(items[remaining[k]])]])
    IN  [k \in DOMAIN keyed |-> keyed[k].id]

\* The remaining items appended in walking mode too.
RemainingAppendedAlways(items, route, travel_mode) ==
    RemainingSorted(items, route)

\* No candidate within the leg limit: walk ends the route, the other modes
\* append the remaining items by descending route_score.
RemainingAppended(items, route, travel_mode) ==
    IF travel_mode = "walk" THEN <<>>
    ELSE RemainingSorted(items, route)

\* The while loop: `route` holds the indices of the items placed so far.
RECURSIVE ExtendRoute(_, _, _)
ExtendRoute(items, route, travel_mode) ==
    LET last == items[route[Len(route)]]
        used == {route[k] : k \in DOMAIN route}
        candidates ==
            {i \in DOMAIN items \ used :
                /\ items[i].coord # None
                /\ WithinLeg(haversine_distance_km(Get(last.coord),
                                                   Get(items[i].coord)),
                             _max_leg_distance_km(travel_mode))}
        best_next ==
            FirstBest([i \in candidates |->
                Composite(items[i], Get(last.coord), travel_mode)])
    IN  IF ~(Len(route) < Len(items)) \/ last.coord = None THEN route
        ELSE IF candidates = {}
        THEN route \o RemainingAppended(items, route, travel_mode)
        ELSE ExtendRoute(items, Append(route, best_next), travel_mode)

_order_bakeries_by_route_distance(items, origin_coord, travel_mode) ==
    IF items = <<>> THEN <<>>
    ELSE LET route == ExtendRoute(items,
                          <<StartItem(items, origin_coord, travel_mode)>>,
                          travel_mode)
         IN  [k \in DOMAIN route |-> items[route[k]]]

----------------------------------------------------------------------------
(* Bounds and state machine of _order_bakeries_by_route_distance           *)

RouteBakeries ==
    [coord : {None, Some(0), Some(10), Some(21), Some(200)},
     scores : {<<100, 100>>, <<300, 200>>, <<200, 0>>}]

RouteRequests ==
    [bakeries : UNION {[1..n -> RouteBakeries] : n \in 0..MaxCandidates},
     origin_coord : {None, Some(0)},
     travel_mode : {"walk", "car", "transit"}]

InitRoute ==
    /\ route_request \in RouteRequests
    /\ route_response = None
    /\ IdleAvail /\ IdleWait /\ IdleExcept("route")

OrderBakeriesByRouteDistance ==
    /\ route_response = None
    /\ route_response' = Some(_order_bakeries_by_route_distance(
           [i \in DOMAIN route_request.bakeries |->
               [orig_idx |-> i,
                coord |-> route_request.bakeries[i].coord,
                score |-> route_request.bakeries[i].scores[1],
                route_score |-> route_request.bakeries[i].scores[2]]],
           route_request.origin_coord,
           route_request.travel_mode))
    /\ UNCHANGED <<route_request, subway_request, subway_response, availVars,
                   waitVars, rankVars,
                   hostVars>>

SpecRoute == InitRoute /\ [][OrderBakeriesByRouteDistance]_vars

----------------------------------------------------------------------------
(* Claims about _order_bakeries_by_route_distance (checked under SpecRoute) *)

RouteReturned == route_response # None
Route == Get(route_response)
RouteIds == {Route[k].orig_idx : k \in DOMAIN Route}

\* C20: in every route the sequencer returns in walking mode, every two
\* consecutive stops have a coordinate and are at most 1.0 km (10
\* hectometres) apart.
C20_WalkLegsWithinLimit ==
    (RouteReturned /\ route_request.travel_mode = "walk") =>
        \A k \in 1..(Len(Route) - 1) :
            /\ Route[k].coord # None
            /\ Route[k + 1].coord # None
            /\ haversine_distance_km(Get(Route[k].coord),
                                     Get(Route[k + 1].coord)) <= 10

\* A walking route with a leg of exactly 1.0 km that leaves out a bakery
\* 1.1 km from its last stop.
C20_Witness ==
    /\ RouteReturned
    /\ route_request.travel_mode = "walk"
    /\ Len(Route) = 2
    /\ Route[1].coord = Some(0)
    /\ Route[2].coord = Some(10)
    /\ \E i \in DOMAIN route_request.bakeries \ RouteIds :
           route_request.bakeries[i].coord = Some(21)

----------------------------------------------------------------------------
(* bakery_rag_chatbot.py: _order_bakeries_by_route, the sequencer called   *)
(* by answer_query.  wait_minutes is the value of                          *)
(* _get_expected_wait_minutes in minutes, open_minutes the value of        *)
(* _get_earliest_open_minutes, station_index the line index of the nearest *)
(* station (-1 when none is within reach or the coordinate is missing).    *)

\* dist_km / speed_kmh * 60.0, in tenths of a minute for a distance in
\* hectometres
_estimate_travel_time_minutes(dist_km, travel_mode) ==
    IF dist_km <= 0 THEN 0
    ELSE CASE travel_mode = "walk" -> (dist_km * 60) \div 4
           [] travel_mode = "car" -> (dist_km * 60) \div 30
           [] OTHER -> (dist_km * 60) \div 20

\* route_score: the score, raised for a bakery with a wait and lowered for
\* one that opens more than three hours after the start
RouteScore(score, wait_min, open_min, start_minutes) ==
    LET delta == Get(open_min) - start_minutes
    IN  score
        + (IF wait_min > 0 THEN SeqMin(wait_min, 30) * 20 ELSE 0)
        - (IF open_min # None /\ delta > 180
           THEN IF delta > 300 THEN 150 ELSE 100
           ELSE 0)

\* items: one record per ranked bakery, in rank order
RouteItems(ranked, start_minutes) ==
    [i \in DOMAIN ranked |->
        [orig_idx |-> i,
         coord |-> ranked[i].coord,
         station_index |-> IF ranked[i].coord = None THEN -1
                           ELSE ranked[i].station_index,
         score |-> ranked[i].score,
         wait_minutes |-> ranked[i].wait_minutes,
         route_score |-> RouteScore(ranked[i].score, ranked[i].wait_minutes,
                                    ranked[i].open_minutes, start_minutes)]]

\* sorted(..., key=route_score or score, reverse=True) of the items chosen
\* by `keep`, given as a function of the item's index
SortedByRouteScore(items, keep) ==
    LET ids == SelectSeq([i \in DOMAIN items |-> i], LAMBDA i : keep[i])
        keyed == SortDesc([k \in DOMAIN ids |->
                     [item |-> items[ids[k]],
                      score |-> RouteBase(items[ids[k]])]])
    IN  [k \in DOMAIN keyed |-> keyed[k].item]

\* station_clusters[s_idx], sorted
Bucket(items, s_idx) ==
    SortedByRouteScore(items,
        [i \in DOMAIN items |-> items[i].station_index = s_idx])

\* The keys of station_clusters in insertion order.
StationClusters(items) ==
    LET first == SelectSeq([i \in DOMAIN items |-> i],
                     LAMBDA i : /\ items[i].station_index >= 0
                                /\ \A j \in 1..(i - 1) :
                                       items[j].station_index
                                           # items[i].station_index)
    IN  [k \in DOMAIN first |-> items[first[k]].station_index]

\* choose_start_station_index: the cluster nearest the origin, or without an
\* origin the cluster whose best item has the highest route_score; the first
\* such cluster in insertion order.
choose_start_station_index(items, origin_coord) ==
    LET clusters == StationClusters(items)
        rep_coord(k) == Get(Bucket(items, clusters[k])[1].coord)
        best == IF origin_coord # None
                THEN FirstBest([k \in DOMAIN clusters |->
                         0 - haversine_distance_km(Get(origin_coord),
                                                   rep_coord(k))])
                ELSE FirstBest([k \in DOMAIN clusters |->
                         RouteBase(Bucket(items, clusters[k])[1])])
    IN  clusters[best]

RECURSIVE build_route(_, _)
build_route(items, pattern_indices) ==
    IF pattern_indices = <<>> THEN <<>>
    ELSE Bucket(items, Head(pattern_indices))
         \o build_route(items, Tail(pattern_indices))

RECURSIVE route_cost_by_station_index(_)
route_cost_by_station_index(route_items) ==
    IF Len(route_items) < 2 THEN 0
    ELSE LET step == route_items[2].station_index
                     - route_items[1].station_index
         IN  (IF step >= 0 THEN step ELSE 0 - step)
             + route_cost_by_station_index(Tail(route_items))

\* The transit branch when some item has a station: right_indices are the
\* cluster stations above the start, ascending, left_indices those below
\* it, descending.
TransitRoute(items, origin_coord) ==
    LET start == choose_start_station_index(items, origin_coord)
        right == SelectSeq([k \in 1..(MaxStationIndex + 1) |-> k - 1],
                     LAMBDA s : s > start /\ Bucket(items, s) # <<>>)
        left == SelectSeq([k \in 1..(MaxStationIndex + 1) |->
                              MaxStationIndex + 1 - k],
                    LAMBDA s : s < start /\ Bucket(items, s) # <<>>)
        route1_items == build_route(items, <<start>> \o right \o left)
        route2_items == build_route(items, <<start>> \o left \o right)
        chosen == IF route_cost_by_station_index(route1_items)
                      <= route_cost_by_station_index(route2_items)
                  THEN route1_items ELSE route2_items
    IN  chosen \o SortedByRouteScore(items,
                      [i \in DOMAIN items |-> items[i].station_index < 0])

_order_bakeries_by_route(ranked, origin_coord, travel_mode, start_minutes) ==
    LET items == RouteItems(ranked, start_minutes)
    IN  IF Len(ranked) <= 1 THEN items
        ELSE IF travel_mode = "transit" /\ StationClusters(items) # <<>>
        THEN TransitRoute(items, origin_coord)
        ELSE _order_bakeries_by_route_distance(items, origin_coord,
                                               travel_mode)

----------------------------------------------------------------------------
(* Bounds and state machine of _order_bakeries_by_route                    *)

\* Where a bakery is: nowhere known, at one of three stations of the line,
\* or 20 km off, beyond the reach of every station.  Its score with expected
\* wait and earliest opening: plain, with a long wait, and opening at 16:00.
SequencerBakeries ==
    {p @@ s :
        p \in {[coord |-> None, station_index |-> -1],
               [coord |-> Some(0), station_index |-> 0],
               [coord |-> Some(10), station_index |-> 1],
               [coord |-> Some(21), station_index |-> 2],
               [coord |-> Some(200), station_index |-> -1]},
        s \in {[score |-> 300, wait_minutes |-> 0, open_minutes |-> None],
               [score |-> 200, wait_minutes |-> 40, open_minutes |-> None],
               [score |-> 150, wait_minutes |-> 0,
                open_minutes |-> Some(960)]}}

\* ranked: (bakery, score) pairs in rank order, by descending score.
\* start_minutes: 11:00 by default, or the 10:00 or 14:00 of a request with
\* a start time.
SequencerRequests ==
    [ranked : {r \in UNION {[1..n -> SequencerBakeries] :
                                n \in 0..MaxCandidates} :
                  \A i \in 1..(Len(r) - 1) : r[i].score >= r[i + 1].score},
     origin_coord : {None, Some(0)},
     travel_mode : {"walk", "car", "transit"},
     start_minutes : {600, 660, 840}]

InitSequencer ==
    /\ route_request \in SequencerRequests
    /\ route_response = None
    /\ IdleAvail /\ IdleWait /\ IdleExcept("route")

OrderBakeriesByRoute ==
    /\ route_response = None
    /\ route_response' = Some(_order_bakeries_by_route(
           route_request.ranked,
           route_request.origin_coord,
           route_request.travel_mode,
           route_request.start_minutes))
    /\ UNCHANGED <<route_request, subway_request, subway_response, availVars,
                   waitVars, rankVars,
                   hostVars>>

SpecSequencer == InitSequencer /\ [][OrderBakeriesByRoute]_vars

----------------------------------------------------------------------------
(* Claims about _order_bakeries_by_route (checked under SpecSequencer)     *)

SequencerReturned == route_response # None
Itinerary == Get(route_response)
Ranked == route_request.ranked
TravelMode == route_request.travel_mode
RankedItems == RouteItems(Ranked, route_request.start_minutes)
ItineraryIds == {Itinerary[k].orig_idx : k \in DOMAIN Itinerary}

\* The request is sequenced by the distance greedy: two or more candidates,
\* and not the station-ordered transit route.
GreedySequenced ==
    /\ Len(Ranked) >= 2
    /\ \/ TravelMode # "transit"
       \/ \A i \in DOMAIN RankedItems : RankedItems[i].station_index < 0

\* The maximum leg of the mode in hectometres: 1 km, 15 km, 10 km.
LegLimit ==
    CASE TravelMode = "walk" -> 10 [] TravelMode = "car" -> 150 [] OTHER -> 100

Apart(a, b) == IF Get(a.coord) >= Get(b.coord)
               THEN Get(a.coord) - Get(b.coord)
               ELSE Get(b.coord) - Get(a.coord)

WithinReach(a, b) ==
    a.coord # None /\ b.coord # None /\ Apart(a, b) <= LegLimit

\* Itinerary[k + 1] was appended by an extension step: every leg up to it
\* stays within the limit (the remaining candidates are appended only when
\* none is within it).
ExtensionStep(k) ==
    /\ k \in 1..(Len(Itinerary) - 1)
    /\ \A j \in 1..k : WithinReach(Itinerary[j], Itinerary[j + 1])

\* The unvisited candidates with a coordinate within reach of stop k.
StepCandidates(k) ==
    {i \in DOMAIN RankedItems :
        /\ \A j \in 1..k : Itinerary[j].orig_idx # i
        /\ WithinReach(Itinerary[k], RankedItems[i])}

\* travelMinutes + expectedWaitMinutes from stop k, in tenths of a minute
StepCost(k, i) ==
    _estimate_travel_time_minutes(Apart(Itinerary[k], RankedItems[i]),
                                  TravelMode)
    + 10 * RankedItems[i].wait_minutes

\* route_score (the score when it is 0) minus the distance penalty of the
\* mode, from stop k, in hundredths
StepComposite(k, i) ==
    (IF RankedItems[i].route_score # 0 THEN RankedItems[i].route_score
     ELSE RankedItems[i].score)
    - (CASE TravelMode = "walk" -> 8 [] TravelMode = "car" -> 2 [] OTHER -> 3)
      * Apart(Itinerary[k], RankedItems[i])

\* C21 as stated: at each extension step the candidate appended next
\* minimises travelMinutes + expectedWaitMinutes among the unvisited
\* candidates with a coordinate within the maximum leg of the current stop.
C21_NextMinimisesTravelPlusWait ==
    (SequencerReturned /\ GreedySequenced) =>
        \A k \in DOMAIN Itinerary : ExtensionStep(k) =>
            \A i \in StepCandidates(k) :
                StepCost(k, Itinerary[k + 1].orig_idx) <= StepCost(k, i)

\* C21 amended: at each extension step the candidate appended next is the
\* first in rank order that maximises route_score - alpha * distance_km
\* among the unvisited candidates with a coordinate within the maximum leg
\* of the current stop.
C21_NextMaximisesComposite ==
    (SequencerReturned /\ GreedySequenced) =>
        \A k \in DOMAIN Itinerary : ExtensionStep(k) =>
            \A i \in StepCandidates(k) :
                LET next == Itinerary[k + 1].orig_idx
                IN  \/ StepComposite(k, next) > StepComposite(k, i)
                    \/ /\ StepComposite(k, next) = StepComposite(k, i)
                       /\ next <= i

\* A walk from the first stop passes over a candidate at the same place
\* without a wait for one with a wait of 40 minutes.
C21_Witness ==
    /\ SequencerReturned /\ GreedySequenced
    /\ TravelMode = "walk"
    /\ ExtensionStep(1)
    /\ Itinerary[2].wait_minutes = 40
    /\ \E i \in StepCandidates(1) :
           /\ RankedItems[i].wait_minutes = 0
           /\ RankedItems[i].coord = Itinerary[2].coord
           /\ StepCost(1, i) < StepCost(1, Itinerary[2].orig_idx)

\* The last stop placed by the start selection and the extension steps.
GreedyEnd ==
    CHOOSE n \in DOMAIN Itinerary :
        /\ \A j \in 1..(n - 1) : ExtensionStep(j)
        /\ ~ExtensionStep(n)

\* The candidates not placed up to the last greedy stop.
Unvisited ==
    {i \in DOMAIN RankedItems :
        \A j \in 1..GreedyEnd : Itinerary[j].orig_idx # i}

\* The sequencer searched from a stop with a coordinate and found no
\* unvisited candidate within the maximum leg, while some are unvisited.
NoneWithinReach ==
    /\ SequencerReturned /\ GreedySequenced
    /\ Itinerary[GreedyEnd].coord # None
    /\ Unvisited # {}
    /\ StepCandidates(GreedyEnd) = {}

\* Every unvisited candidate follows the last greedy stop, each once.
AllAppended ==
    /\ Len(Itinerary) = Len(Ranked)
    /\ {Itinerary[j].orig_idx : j \in (GreedyEnd + 1)..Len(Itinerary)}
           = Unvisited

\* C22 as stated: when no unvisited candidate is within the maximum leg, car
\* and transit mode append all remaining candidates in their original rank
\* order and walking mode ends the tour with none of them appended.
C22_RemainderInRankOrder ==
    NoneWithinReach =>
        IF TravelMode = "walk" THEN Len(Itinerary) = GreedyEnd
        ELSE /\ AllAppended
             /\ \A j \in (GreedyEnd + 1)..(Len(Itinerary) - 1) :
                    Itinerary[j].orig_idx < Itinerary[j + 1].orig_idx

\* C22 amended: when the sequencer, at a stop with a coordinate, finds no
\* unvisited candidate within the maximum leg, car and transit mode append
\* all remaining candidates by descending route_score (the score when the
\* route_score is 0), ties in rank order, and walking mode ends the tour
\* with none of them appended.
C22_RemainderByRouteScore ==
    NoneWithinReach =>
        IF TravelMode = "walk" THEN Len(Itinerary) = GreedyEnd
        ELSE /\ AllAppended
             /\ \A j \in (GreedyEnd + 1)..(Len(Itinerary) - 1) :
                    LET a == Itinerary[j]
                        b == Itinerary[j + 1]
                    IN  \/ RouteBase(a) > RouteBase(b)
                        \/ /\ RouteBase(a) = RouteBase(b)
                           /\ a.orig_idx < b.orig_idx

\* By car, two candidates out of reach are appended against their rank
\* order, the one with the long wait first.
C22_Witness ==
    /\ NoneWithinReach
    /\ TravelMode = "car"
    /\ Len(Itinerary) = GreedyEnd + 2
    /\ Itinerary[GreedyEnd + 1].orig_idx > Itinerary[GreedyEnd + 2].orig_idx
    /\ Itinerary[GreedyEnd + 1].wait_minutes = 40

\* The positions of the itinerary whose stop is assigned to a station.
StationStops == {k \in DOMAIN Itinerary : Itinerary[k].station_index >= 0}

\* C26 as stated: in transit mode the station indices of the
\* station-assigned stops, in the returned order, are entirely
\* non-decreasing or entirely non-increasing.
C26_TransitOneDirection ==
    (SequencerReturned /\ TravelMode = "transit") =>
        \/ \A j, k \in StationStops : j < k =>
               Itinerary[j].station_index <= Itinerary[k].station_index
        \/ \A j, k \in StationStops : j < k =>
               Itinerary[j].station_index >= Itinerary[k].station_index

\* C29 as stated: for two or more candidates the returned list holds no
\* candidate twice and only candidates of the input, and in car and transit
\* mode it holds every candidate of the input.
C29_NothingLostOrDuplicated ==
    (SequencerReturned /\ Len(Ranked) >= 2) =>
        /\ \A j, k \in DOMAIN Itinerary :
               Itinerary[j].orig_idx = Itinerary[k].orig_idx => j = k
        /\ ItineraryIds \subseteq DOMAIN Ranked
        /\ TravelMode # "walk" => ItineraryIds = DOMAIN Ranked

----------------------------------------------------------------------------
(* The chosen interval against the widest one (checked under SpecSubway)   *)

\* Candidate i comes before candidate j by score, ties by rank.
Beats(i, j) ==
    ScoreOf(i) > ScoreOf(j) \/ (ScoreOf(i) = ScoreOf(j) /\ i < j)

\* The top max_bakeries_per_station candidates of every stop.
PerStopTop ==
    {i \in Located :
        Cardinality({j \in Located : StopOf(j) = StopOf(i) /\ Beats(j, i)})
            < subway_request.max_bakeries_per_station}

\* The top max_total_bakeries of the per-stop tops of the stops left..right.
IntervalTop(left, right) ==
    LET pool == {i \in PerStopTop : left <= StopOf(i) /\ StopOf(i) <= right}
    IN  {i \in pool : Cardinality({j \in pool : Beats(j, i)})
                          < subway_request.max_total_bakeries}

WidestTop == IntervalTop(0, MaxStationIndex)

AllLocatedPositive ==
    Located # {} /\ \A i \in Located : ScoreOf(i) > 0

\* C30: when every candidate assigned to a stop has a strictly positive
\* score, the returned candidates are, score for score, the top
\* max_total_bakeries of the per-stop top max_bakeries_per_station of the
\* whole line, and no narrower interval has a strictly larger summed score.
C30_EqualsWidestInterval ==
    (SubwayReturned /\ AllLocatedPositive) =>
        /\ Cardinality(ReturnedIds) = Len(SubwayResult)
        /\ ReturnedIds \subseteq Located
        /\ \A i \in Located :
               Cardinality({j \in ReturnedIds : ScoreOf(j) = ScoreOf(i)})
                   = Cardinality({j \in WidestTop : ScoreOf(j) = ScoreOf(i)})
        /\ \A left, right \in 0..MaxStationIndex :
               SetScore(IntervalTop(left, right)) <= SetScore(WidestTop)

\* Stops 0, 1 and 2 hold a candidate of score 9 each and two are asked for:
\* the interval [0, 1] is chosen, narrower than the line, with the summed
\* score of the widest interval.
C30_Witness ==
    /\ SubwayReturned /\ AllLocatedPositive
    /\ subway_request.max_total_bakeries = 2
    /\ \A k \in 0..MaxStationIndex : \E i \in Located : StopOf(i) = k
    /\ SubwayInterval = Some(<<0, 1>>)
    /\ SetScore(ReturnedIds) = SetScore(WidestTop)
    /\ SetScore(ReturnedIds) = 18

----------------------------------------------------------------------------
(* route_planning.py: the nearest-neighbour course of a flagship tour      *)
(* A bakery is [idx, coord]; coord is None when latitude or longitude is   *)
(* missing, else its place on the meridian in hectometres.  A call that    *)
(* raises returns None here.                                               *)

choose_start_point(user_location, bakeries) ==
    IF user_location # None THEN user_location
    ELSE IF bakeries = <<>> THEN None               \* raise ValueError
    ELSE Head(bakeries).coord                       \* None: _to_float raises

\* min(remaining, key=distance_from_current) reads the coordinates of every
\* remaining bakery and takes the first of the nearest.
RECURSIVE optimize_route_by_distance(_, _)
optimize_route_by_distance(bakeries, start_point) ==
    IF bakeries = <<>> THEN Some(<<>>)
    ELSE IF \E i \in DOMAIN bakeries : bakeries[i].coord = None
    THEN None                                       \* KeyError / ValueError
    ELSE LET haversine_km(i) ==
                 IF Get(bakeries[i].coord) >= start_point
                 THEN Get(bakeries[i].coord) - start_point
                 ELSE start_point - Get(bakeries[i].coord)
             k == CHOOSE i \in DOMAIN bakeries :
                      \A j \in DOMAIN bakeries :
                          \/ haversine_km(i) < haversine_km(j)
                          \/ (haversine_km(i) = haversine_km(j) /\ i <= j)
             remaining == [j \in 1..(Len(bakeries) - 1) |->
                              IF j < k THEN bakeries[j] ELSE bakeries[j + 1]]
         IN  Some(<<bakeries[k]>>
                  \o Get(optimize_route_by_distance(remaining,
                                                    Get(bakeries[k].coord))))

optimize_flagship_route(ranked_bakeries, user_location, max_spots) ==
    LET flagship == Take(ranked_bakeries, max_spots)
        start_point == choose_start_point(user_location, flagship)
        optimized == IF start_point = None THEN None
                     ELSE optimize_route_by_distance(flagship,
                                                     Get(start_point))
    IN  IF start_point = None \/ optimized = None
        THEN [raised |-> TRUE, start_point |-> None, optimized |-> <<>>]
        ELSE [raised |-> FALSE, start_point |-> start_point,
              optimized |-> Get(optimized)]

----------------------------------------------------------------------------
(* bakery_rag_chatbot.py: _rerank_with_llm                                 *)
(* A ranked entry is [idx, score]; the reply of the model is None when the *)
(* call raised, else its text as a sequence of characters.                 *)

\* A top slice that is the whole list.
WholeList(ranked, max_items) == ranked

\* top_slice = ranked[:max_items]
TopSlice(ranked, max_items) == Take(ranked, max_items)

_rerank_with_llm(llm_client, ranked, max_items, reply) ==
    LET top_slice == TopSlice(ranked, max_items)
        text == SelectSeq(Get(reply), LAMBDA c : c # " ")
        \* text.split(","): the tokens between the commas
        RECURSIVE Split(_, _)
        Split(rest, token) ==
            IF rest = <<>> THEN <<token>>
            ELSE IF Head(rest) = "," THEN <<token>> \o Split(Tail(rest), <<>>)
            ELSE Split(Tail(rest), Append(token, Head(rest)))
        Digit == ("0" :> 0) @@ ("1" :> 1) @@ ("2" :> 2) @@ ("3" :> 3)
        \* int(token): the decimal value; ValueError is None
        RECURSIVE ParseInt(_, _)
        ParseInt(token, value) ==
            IF token = <<>> THEN Some(value)
            ELSE IF Head(token) \notin DOMAIN Digit THEN None
            ELSE ParseInt(Tail(token), 10 * value + Digit[Head(token)])
        RECURSIVE Order(_)
        Order(tokens) ==
            IF tokens = <<>> THEN <<>>
            ELSE LET n == ParseInt(Head(tokens), 0)
                 IN  (IF /\ Head(tokens) # <<>> /\ n # None
                         /\ 1 <= Get(n) /\ Get(n) <= Len(top_slice)
                      THEN <<Get(n)>> ELSE <<>>)
                     \o Order(Tail(tokens))
        order == Order(Split(text, <<>>))
        first(k) == \A j \in 1..(k - 1) : order[j] # order[k]
        added == {order[k] : k \in DOMAIN order}
        chosen == SelectSeq([k \in DOMAIN order |->
                                IF first(k) THEN order[k] ELSE 0],
                            LAMBDA n : n # 0)
        rest == SelectSeq([i \in 1..Len(top_slice) |->
                              IF i \in added THEN 0 ELSE i],
                          LAMBDA n : n # 0)
        new_top == [k \in 1..Len(top_slice) |-> top_slice[(chosen \o rest)[k]]]
    IN  IF ~llm_client \/ ranked = <<>> THEN ranked
        ELSE IF reply = None THEN ranked
        ELSE IF order = <<>> THEN ranked
        ELSE new_top \o SubSeq(ranked, Len(top_slice) + 1, Len(ranked))

----------------------------------------------------------------------------
(* bakery_rag_chatbot.py: the start of the schedule in answer_query        *)
(* Times are minutes of the day; a constraint is [has_date_range,          *)
(* start_time, end_time, use_now_if_missing].                              *)

_infer_start_minutes(constraint, clock) ==
    IF constraint.has_date_range /\ constraint.start_time # None
    THEN Get(constraint.start_time)
    ELSE IF constraint.use_now_if_missing THEN clock
    ELSE 11 * 60

\* parse_date_time_from_query leaves use_now_if_missing set when the query
\* names no date and no time; answer_query clears it unless the query asks
\* for "now", takes the earliest opening of the recommended bakeries as
\* start_time when nothing else fixes the start, and render_answer starts
\* its clock at _infer_start_minutes.
answer_query(has_date_range, start_time, end_time, has_now_intent, earliest_open, clock) ==
    LET untimed == ~has_date_range /\ start_time = None /\ end_time = None
        use_now_if_missing == untimed /\ has_now_intent
        opens == {Get(earliest_open[i]) : i \in
                     {j \in DOMAIN earliest_open : earliest_open[j] # None}}
        earliest_min == CHOOSE m \in opens : \A o \in opens : m <= o
        inferred == /\ earliest_open # <<>> /\ ~has_date_range
                    /\ start_time = None /\ ~use_now_if_missing
                    /\ opens # {}
        dt_constraint ==
            [has_date_range |-> has_date_range,
             start_time |-> IF inferred
                            THEN Some((earliest_min \div 60) * 60
                                      + (earliest_min % 60))
                            ELSE start_time,
             end_time |-> end_time,
             use_now_if_missing |-> use_now_if_missing]
    IN  [dt_constraint |-> dt_constraint,
         start_minutes |-> _infer_start_minutes(dt_constraint, clock)]

----------------------------------------------------------------------------
(* Bounds and state machine of the orchestration calls                     *)

MaxReplyLen == 3

\* One call is in flight: a flagship course, a re-ranking with the reply
\* the model gave, or the scheduling part of answer_query.
InitCore ==
    /\ core_request \in
           [op : {"optimize_flagship_route"},
            ranked_bakeries :
                UNION {[1..n -> [coord : {None, Some(0), Some(10), Some(21)}]]
                          : n \in 0..MaxCandidates},
            user_location : {None, Some(0), Some(15)},
            max_spots : {2, 10}]
           \cup
           [op : {"_rerank_with_llm"},
            llm_client : BOOLEAN,
            ranked : {r \in UNION {[1..n -> [score : {100, 200, 300}]]
                                      : n \in 0..MaxCandidates} :
                         \A i \in 1..(Len(r) - 1) :
                             r[i].score >= r[i + 1].score},
            max_items : {2, 3},
            reply : {None} \cup
                    {Some(t) : t \in UNION {[1..n -> {"1", "2", "3", ",", " ", "x"}]
                                               : n \in 0..MaxReplyLen}}]
           \cup
           [op : {"answer_query"},
            has_date_range : BOOLEAN,
            start_time : {None, Some(600), Some(840)},
            end_time : {None, Some(1080)},
            has_now_intent : BOOLEAN,
            earliest_open :
                UNION {[1..n -> {None, Some(480), Some(660), Some(720)}]
                          : n \in 0..MaxCandidates},
            clock : {540, 900}]
    /\ core_response = None
    /\ IdleAvail /\ IdleWait /\ IdleExcept("core")

OptimizeFlagshipRoute ==
    /\ core_response = None
    /\ core_request.op = "optimize_flagship_route"
    /\ core_response' = Some(optimize_flagship_route(
           [i \in DOMAIN core_request.ranked_bakeries |->
               [idx |-> i] @@ core_request.ranked_bakeries[i]],
           core_request.user_location,
           core_request.max_spots))
    /\ UNCHANGED <<core_request, dataset, filter_result, _instance,
                   constructor_runs, pc, observed, availVars, waitVars,
                   rankVars, tourVars>>

RerankWithLlm ==
    /\ core_response = None
    /\ core_request.op = "_rerank_with_llm"
    /\ core_response' = Some(_rerank_with_llm(
           core_request.llm_client,
           [i \in DOMAIN core_request.ranked |->
               [idx |-> i] @@ core_request.ranked[i]],
           core_request.max_items,
           core_request.reply))
    /\ UNCHANGED <<core_request, dataset, filter_result, _instance,
                   constructor_runs, pc, observed, availVars, waitVars,
                   rankVars, tourVars>>

AnswerQuery ==
    /\ core_response = None
    /\ core_request.op = "answer_query"
    /\ core_response' = Some(answer_query(
           core_request.has_date_range,
           core_request.start_time,
           core_request.end_time,
           core_request.has_now_intent,
           core_request.earliest_open,
           core_request.clock))
    /\ UNCHANGED <<core_request, dataset, filter_result, _instance,
                   constructor_runs, pc, observed, availVars, waitVars,
                   rankVars, tourVars>>

SpecCore ==
    InitCore /\ [][OptimizeFlagshipRoute \/ RerankWithLlm \/ AnswerQuery]_vars

----------------------------------------------------------------------------
(* Claims about the orchestration calls (checked under SpecCore)           *)

CoreReturned(op) == core_response # None /\ core_request.op = op
CoreResult == Get(core_response)

\* C23 as stated: no operation raises, and the no-candidates case yields an
\* explicit empty itinerary rather than a failure.
C23_NoOperationRaises ==
    CoreReturned("optimize_flagship_route") =>
        /\ ~CoreResult.raised
        /\ core_request.ranked_bakeries = <<>> => CoreResult.optimized = <<>>

\* C25: for every ranked list and every reply of the model (empty,
\* malformed, duplicated or out-of-range numbers, or a failed call) the
\* re-ranker returns a permutation of its input in which every entry past
\* the first max_items keeps its position and every entry keeps its score.
C25_RerankOnlyReordersTopSlice ==
    CoreReturned("_rerank_with_llm") =>
        /\ Len(CoreResult) = Len(core_request.ranked)
        /\ {CoreResult[k].idx : k \in DOMAIN CoreResult}
               = DOMAIN core_request.ranked
        /\ \A k \in DOMAIN CoreResult :
               /\ k > core_request.max_items => CoreResult[k].idx = k
               /\ CoreResult[k].score
                      = core_request.ranked[CoreResult[k].idx].score

\* Of three entries the reply "2,1" swaps the first two and the third, past
\* max_items = 2, stays.
C25_Witness ==
    /\ CoreReturned("_rerank_with_llm")
    /\ core_request.reply = Some(<<"2", ",", "1">>)
    /\ core_request.max_items = 2
    /\ Len(CoreResult) = 3
    /\ CoreResult[1].idx = 2 /\ CoreResult[2].idx = 1 /\ CoreResult[3].idx = 3

\* C27 as stated: when the request gives no date range, no start time and
\* is not a use-now request, and a recommended POI has opening hours, the
\* clock render_answer starts from is the earliest opening minute among the
\* recommended POIs.
C27_ClockStartsAtEarliestOpening ==
    (/\ CoreReturned("answer_query")
     /\ ~core_request.has_date_range
     /\ core_request.start_time = None
     /\ ~CoreResult.dt_constraint.use_now_if_missing) =>
        \A i \in DOMAIN core_request.earliest_open :
            core_request.earliest_open[i] # None =>
                /\ CoreResult.start_minutes
                       <= Get(core_request.earliest_open[i])
                /\ \E j \in DOMAIN core_request.earliest_open :
                       core_request.earliest_open[j]
                           = Some(CoreResult.start_minutes)

----------------------------------------------------------------------------
(* src/chatbot/rag_wrapper.py: RAGWrapper                                   *)
(* Threads of one process call RAGWrapper.chat / search (which start in     *)
(* get_instance) or RAGWrapper.initialize; nothing orders them.  pc[t] is   *)
(* [entry, line]: the method thread t called and the line it is about to   *)
(* run (0 once it has returned).  An instance is named by the thread whose  *)
(* constructor call built it.                                               *)

NumThreads == 3

InitWrapper ==
    /\ _instance = None
    /\ constructor_runs = {}
    /\ pc \in [1..NumThreads ->
                  {[entry |-> "get_instance", line |-> 27],
                   [entry |-> "initialize", line |-> 15]}]
    /\ observed = [t \in 1..NumThreads |-> None]
    /\ IdleAvail /\ IdleWait /\ IdleExcept("rag_wrapper")

\* line 27: if cls._instance is None: cls.initialize()
GetInstance(t) ==
    /\ pc[t].line = 27
    /\ pc' = [pc EXCEPT ![t].line = IF _instance = None THEN 15 ELSE 29]
    /\ UNCHANGED <<_instance, constructor_runs, observed, core_request,
                   core_response, dataset, filter_result, availVars,
                   waitVars, rankVars, tourVars>>

\* line 15: if cls._instance is None: ...; else initialize returns, to line
\* 29 of get_instance or to its caller
Initialize(t) ==
    /\ pc[t].line = 15
    /\ pc' = [pc EXCEPT ![t].line =
                 IF _instance = None THEN 17
                 ELSE IF pc[t].entry = "get_instance" THEN 29 ELSE 0]
    /\ UNCHANGED <<_instance, constructor_runs, observed, core_request,
                   core_response, dataset, filter_result, availVars,
                   waitVars, rankVars, tourVars>>

\* lines 17-23: cls._instance = BakeryRAGSystem(), then the index is loaded
Construct(t) ==
    /\ pc[t].line = 17
    /\ constructor_runs' = constructor_runs \cup {t}
    /\ _instance' = Some(t)
    /\ pc' = [pc EXCEPT ![t].line =
                 IF pc[t].entry = "get_instance" THEN 29 ELSE 0]
    /\ UNCHANGED <<observed, core_request, core_response, dataset,
                   filter_result, availVars, waitVars, rankVars, tourVars>>

\* line 29: return cls._instance
Return(t) ==
    /\ pc[t].line = 29
    /\ observed' = [observed EXCEPT ![t] = _instance]
    /\ pc' = [pc EXCEPT ![t].line = 0]
    /\ UNCHANGED <<_instance, constructor_runs, core_request, core_response,
                   dataset, filter_result, availVars, waitVars, rankVars,
                   tourVars>>

SpecWrapper ==
    InitWrapper
    /\ [][\E t \in 1..NumThreads :
              GetInstance(t) \/ Initialize(t) \/ Construct(t) \/ Return(t)]_vars

----------------------------------------------------------------------------
(* Claims about RAGWrapper (checked under SpecWrapper)                     *)

\* C28 as stated: under any interleaving of concurrent calls the
\* BakeryRAGSystem constructor runs at most once and every caller observes
\* the same instance.
C28_Singleton ==
    /\ Cardinality(constructor_runs) <= 1
    /\ \A s, t \in DOMAIN observed :
           (observed[s] # None /\ observed[t] # None)
           => observed[s] = observed[t]

----------------------------------------------------------------------------
(* ranking_module.py: filter_subway_walk_range and                         *)
(* subway_tour_planner.py: attach_nearest_subway_info                      *)
(* The loaded dataset is a list of POI records [coord, walk_min]: the      *)
(* place on the meridian in hectometres (None without coordinates) and     *)
(* the value under "_nearest_subway_walk_min" (None while the record has   *)
(* no such key).  A candidate list handed to an operation holds the        *)
(* records of the dataset themselves, named here by their positions.       *)

\* The stations of the line, by station index, in hectometres.
get_subway_stations == <<0, 10, 21>>

\* The dataset as loaded; no operation has run.
InitDataset ==
    /\ dataset \in UNION {[1..n -> [coord : {None, Some(0), Some(4),
                                             Some(12), Some(40)},
                                    walk_min : {None}]]
                             : n \in 1..MaxCandidates}
    /\ filter_result = None
    /\ IdleAvail /\ IdleWait /\ IdleExcept("dataset")

\* filter_subway_walk_range(bakeries): every record within 20 minutes on
\* foot of a station gets b["_nearest_subway_walk_min"] = round(min_walk)
\* and is returned; the record written is the one of the dataset.
FilterSubwayWalkRange ==
    \E bakeries \in SUBSET DOMAIN dataset :
        LET stations == get_subway_stations
            \* estimate_walk_time_minutes at 4 km/h, in tenths of a minute
            walk_min(i, st) ==
                15 * haversine_distance_km(Get(dataset[i].coord), stations[st])
            min_walk(i) ==
                CHOOSE w \in {walk_min(i, st) : st \in DOMAIN stations} :
                    \A st \in DOMAIN stations : w <= walk_min(i, st)
            \* round(): to the nearest minute, a half to the even one
            round(w) ==
                IF (w % 10) > 5 \/ ((w % 10) = 5 /\ (w \div 10) % 2 = 1)
                THEN (w \div 10) + 1 ELSE w \div 10
            kept == {i \in bakeries : /\ dataset[i].coord # None
                                      /\ min_walk(i) <= 20 * 10}
        IN  /\ dataset' = [i \in DOMAIN dataset |->
                              IF i \in kept
                              THEN [dataset[i] EXCEPT
                                       !.walk_min = Some(round(min_walk(i)))]
                              ELSE dataset[i]]
            /\ filter_result' = Some([i \in kept |->
                                         [shared |-> TRUE,
                                          subway_info |-> None]])
            /\ UNCHANGED <<core_request, core_response, _instance,
                           constructor_runs, pc, observed, availVars,
                           waitVars, rankVars, tourVars>>

\* attach_nearest_subway_info(bakeries, stations, 20.0): every record
\* within 20 minutes of its nearest station is copied (b = dict(b)) and the
\* copy gets b["subway_info"]; the copies are returned.
AttachNearestSubwayInfo ==
    \E bakeries \in SUBSET DOMAIN dataset :
        LET stations == get_subway_stations
            \* estimate_walk_minutes at 4 km/h, in tenths of a minute
            minutes(i, st) ==
                15 * haversine_distance_km(Get(dataset[i].coord), stations[st])
            best_station(i) ==
                CHOOSE st \in DOMAIN stations :
                    \A o \in DOMAIN stations :
                        \/ minutes(i, st) < minutes(i, o)
                        \/ (minutes(i, st) = minutes(i, o) /\ st <= o)
            attached == {i \in bakeries :
                            /\ dataset[i].coord # None
                            /\ minutes(i, best_station(i)) <= 20 * 10}
        IN  /\ filter_result' =
                   Some([i \in attached |->
                            [shared |-> FALSE,
                             subway_info |->
                                 Some([station_index |-> best_station(i) - 1,
                                       walk_minutes |->
                                           minutes(i, best_station(i))])]])
            /\ UNCHANGED <<dataset, core_request, core_response, _instance,
                           constructor_runs, pc, observed, availVars,
                           waitVars, rankVars, tourVars>>

SpecDataset ==
    InitDataset /\ [][FilterSubwayWalkRange \/ AttachNearestSubwayInfo]_vars

----------------------------------------------------------------------------
(* Claims about the dataset (checked under SpecDataset)                    *)

\* C24 as stated: no operation changes a POI record of the loaded dataset,
\* the business-hours index or the review-statistics index.
C24_DatasetNeverMutated ==
    [][/\ dataset' = dataset
       /\ business_hours_index' = business_hours_index
       /\ review_stats_cache' = review_stats_cache]_vars

====
